---- MODULE Spec2Model ----
(***************************************************************************)
(* A model of the library search and ranking engine of music-finder:       *)
(*   - search_library / recursive_search   (backend/search_library/search.py)*)
(*   - decode_assistant_response, decode_individual_song_reasoning          *)
(*                                          (backend/search_library/prompts.py)*)
(*   - generate_many_song_reasoning / generate_individual_song_reasoning    *)
(*   - enrich_songs                         (backend/utils.py)              *)
(*   - the spotify_search event stream      (backend/main.py)               *)
(* Each component has its own specification; the variables of the other    *)
(* components stay at their idle values under it.                           *)
(***************************************************************************)
EXTENDS Integers, Sequences, FiniteSets, TLC

(***************************************************************************)
(* Bounds of the model.                                                    *)
(***************************************************************************)
MaxLib == 3        \* longest library handed to search_library
MaxChunk == 3      \* largest chunk_size
MaxN == 2          \* largest n (result count)
MaxIds == 2        \* most ids in one model response
MaxSongs == 3      \* most songs handed to generate_many_song_reasoning
MaxRaw == 3        \* most raw songs handed to enrich_songs
HARDCODE_SONG_COUNT == 2 \* songs per request in the flow (utils.py:31 sets 100)

Min(a, b) == IF a < b THEN a ELSE b

\* An id the model invents: no song of any library has it.
UnknownId == 0

(***************************************************************************)
(* Text of a model response.  A response is a sequence of lines            *)
(* (response.split("\n")); a line is a sequence of tokens; a token is a     *)
(* tagged element <tag>body</tag> or a run of plain text.                   *)
(***************************************************************************)
SongIdTok(i) == [tag |-> "song_id", id |-> i, text |-> ""]
ReasonTok(t) == [tag |-> "reason", id |-> 0, text |-> t]
TextTok(t) == [tag |-> "text", id |-> 0, text |-> t]

ReasonText == "lyric match"

\* How the model lays out a ranking: the ids alone (prompts.py:57-59), each
\* id followed by its reason on the same line, or each id followed by its
\* reason on the next line (prompts.py:28-33).
RECURSIVE RenderRanking(_, _)
RenderRanking(idseq, style) ==
    IF idseq = <<>> THEN <<>>
    ELSE (CASE style = "bare" -> << <<SongIdTok(Head(idseq))>> >>
            [] style = "same_line" ->
                   << <<SongIdTok(Head(idseq)), ReasonTok(ReasonText)>> >>
            [] style = "next_line" ->
                   << <<SongIdTok(Head(idseq))>>, <<ReasonTok(ReasonText)>> >>)
         \o RenderRanking(Tail(idseq), style)

RankingStyles(flag) == IF flag THEN {"same_line", "next_line"} ELSE {"bare"}

\* The responses the model can give when shown `sub`: up to MaxIds ids of
\* `sub` or the invented id, in any order, repeats included.
RankingResponses(sub, flag) ==
    LET idset == {sub[k] : k \in 1..Len(sub)} \cup {UnknownId}
    IN  {RenderRanking(idseq, style) :
            idseq \in UNION {[1..k -> idset] : k \in 0..MaxIds},
            style \in RankingStyles(flag)}

\* line.startswith("<song_id>")
StartsWithSongId(line) == Len(line) > 0 /\ line[1].tag = "song_id"

\* line.split("<song_id>")[1].split("</song_id>")[0]
FirstSongId(line) == line[1].id

RECURSIVE DecodeLines(_)
DecodeLines(lines) ==
    IF lines = <<>> THEN <<>>
    ELSE IF StartsWithSongId(Head(lines))
         THEN <<[song_id |-> FirstSongId(Head(lines)), reason |-> ""]>>
                  \o DecodeLines(Tail(lines))
         ELSE DecodeLines(Tail(lines))

\* decode_assistant_response: both branches of the flag run the same loop,
\* which appends (id, "") for every line that starts with <song_id>.
decode_assistant_response(response, flag) ==
    IF flag THEN DecodeLines(response) ELSE DecodeLines(response)

(***************************************************************************)
(* recursive_search, after the model call has returned `response`.          *)
(* A song object is named by its id (the ids of a library are distinct:     *)
(* utils.py:251 and the store's primary key); a sublibrary is a sequence of *)
(* songs, in which the reduction pass may see a song more than once.        *)
(***************************************************************************)
\* id_to_song = {song.id: song for song in sublibrary}
IdToSongDomain(sub) == {sub[k] : k \in 1..Len(sub)}

\* A recursive_search that keeps every id the model names.
MatchSongsUnchecked(song_reasons, sub) ==
    [k \in 1..Len(song_reasons) |-> song_reasons[k].song_id]

\* A recursive_search that walks the sublibrary and keeps the songs the
\* model named, in the order of the sublibrary.
MatchSongsInLibraryOrder(song_reasons, sub) ==
    SelectSeq(sub, LAMBDA id :
                     \E k \in 1..Len(song_reasons) : song_reasons[k].song_id = id)

RECURSIVE MatchSongs(_, _)
MatchSongs(song_reasons, sub) ==
    IF song_reasons = <<>> THEN <<>>
    ELSE IF Head(song_reasons).song_id \in IdToSongDomain(sub)
         THEN <<Head(song_reasons).song_id>> \o MatchSongs(Tail(song_reasons), sub)
         ELSE MatchSongs(Tail(song_reasons), sub)

\* A recursive_search that falls back on the first song of the sublibrary
\* when the model named none of its songs.
RecursiveSearchResultPadded(sub, response, flag) ==
    LET matched == MatchSongs(decode_assistant_response(response, flag), sub)
    IN  IF matched = <<>> /\ sub # <<>> THEN <<sub[1]>> ELSE matched

\* The list recursive_search returns.
RecursiveSearchResult(sub, response, flag) ==
    MatchSongs(decode_assistant_response(response, flag), sub)

\* song.reasoning = reason, applied in response order (the last pair wins).
RECURSIVE AssignReasons(_, _, _)
AssignReasons(song_reasons, sub, reasons) ==
    IF song_reasons = <<>> THEN reasons
    ELSE IF Head(song_reasons).song_id \in IdToSongDomain(sub)
         THEN AssignReasons(Tail(song_reasons), sub,
                  [reasons EXCEPT ![Head(song_reasons).song_id]
                                      = Head(song_reasons).reason])
         ELSE AssignReasons(Tail(song_reasons), sub, reasons)

RecursiveSearchReasons(sub, response, flag, reasons) ==
    AssignReasons(decode_assistant_response(response, flag), sub, reasons)

(***************************************************************************)
(* search_library: the chunks.                                             *)
(***************************************************************************)
\* range(start, stop, step)
RECURSIVE Range(_, _, _)
Range(start, stop, step) ==
    IF start >= stop THEN <<>> ELSE <<start>> \o Range(start + step, stop, step)

\* seq[i:j] with 0-based i, j (j clipped to the length)
Slice(seq, i, j) == SubSeq(seq, i + 1, Min(j, Len(seq)))

\* A chunking that loses the shorter last chunk.
ChunksWholeOnly(lib, size) ==
    [k \in 1..(Len(lib) \div size) |-> Slice(lib, (k - 1) * size, k * size)]

\* [library[i:i + chunk_size] for i in range(0, len(library), chunk_size)]
Chunks(lib, size) ==
    LET starts == Range(0, Len(lib), size)
    IN  [k \in 1..Len(starts) |-> Slice(lib, starts[k], starts[k] + size)]

\* The usage dictionary a model call returns.  A client that reports usage
\* counts the prompt (its fixed text and one block per song) and a fixed
\* completion; one that does not returns an empty dictionary (the test double
\* of tests/test_search.py:33).
Usage(reports, sub, response) ==
    IF reports
    THEN [keys |-> {"input_tokens", "output_tokens"},
          input_tokens |-> Len(sub) + 1, output_tokens |-> 2]
    ELSE [keys |-> {}, input_tokens |-> 0, output_tokens |-> 0]

\* usage.get(key, default)
UsageGet(usage, key, default) == IF key \in usage.keys THEN usage[key] ELSE default

ZeroTotals == [total_input_tokens |-> 0, total_output_tokens |-> 0, total_requests |-> 0]

\* An accumulator that keeps the tokens of the latest call only.
AddUsageLatestOnly(total, usage) ==
    [total_input_tokens |-> UsageGet(usage, "input_tokens", 0),
     total_output_tokens |-> UsageGet(usage, "output_tokens", 0),
     total_requests |-> total.total_requests + 1]

\* Lines 66-68 and 83-85.
AddUsage(total, usage) ==
    [total_input_tokens |-> total.total_input_tokens + UsageGet(usage, "input_tokens", 0),
     total_output_tokens |-> total.total_output_tokens + UsageGet(usage, "output_tokens", 0),
     total_requests |-> total.total_requests + 1]

(***************************************************************************)
(* The Reasoning Generator: decode_individual_song_reasoning and            *)
(* generate_individual_song_reasoning.                                      *)
(***************************************************************************)
FilterTok(v) == [tag |-> "filter_out", id |-> 0, text |-> v]

MatchText == "Matching first name."

\* The responses a per-song call can bring back: the two layouts the prompt
\* asks for (prompts.py:170-178), and layouts that depart from it.
ReasoningResponses ==
    { << <<FilterTok("false")>>, <<ReasonTok(MatchText)>> >>,
      << <<FilterTok("true")>>, <<ReasonTok("")>> >>,
      << <<FilterTok("true")>> >>,
      << <<FilterTok("false")>> >>,
      << <<>>, <<FilterTok("false")>>, <<ReasonTok(MatchText)>>, <<>> >>,
      << <<FilterTok("false")>>, <<TextTok("stray")>>, <<ReasonTok(MatchText)>> >>,
      << <<TextTok("stray")>> >>,
      << >> }

\* response.strip().split("\n"): blank lines at either end are whitespace;
\* the split of an empty string is one empty line.
RECURSIVE DropLeadingBlank(_)
DropLeadingBlank(lines) ==
    IF lines # <<>> /\ Head(lines) = <<>> THEN DropLeadingBlank(Tail(lines)) ELSE lines

RECURSIVE DropTrailingBlank(_)
DropTrailingBlank(lines) ==
    IF lines # <<>> /\ lines[Len(lines)] = <<>>
    THEN DropTrailingBlank(SubSeq(lines, 1, Len(lines) - 1))
    ELSE lines

StripSplit(response) ==
    LET kept == DropTrailingBlank(DropLeadingBlank(response))
    IN  IF kept = <<>> THEN << <<>> >> ELSE kept

\* line.split("<tag>"): more than one part iff the line holds the tag
HasTag(line, tag) == \E k \in 1..Len(line) : line[k].tag = tag

\* line.split("<tag>")[1].split("</tag>")[0]
TagBody(line, tag) ==
    line[CHOOSE k \in 1..Len(line) :
            /\ line[k].tag = tag
            /\ \A j \in 1..(k - 1) : line[j].tag # tag].text

\* decode_individual_song_reasoning: (filter_out, reason), or the exception
\* the assert or an index raises.
decode_individual_song_reasoning(response) ==
    LET lines == StripSplit(response) IN
    IF Len(lines) \notin {1, 2}
    THEN [raised |-> TRUE, filter_out |-> FALSE, reason |-> ""]
    ELSE IF ~HasTag(lines[1], "filter_out")
    THEN [raised |-> TRUE, filter_out |-> FALSE, reason |-> ""]
    ELSE IF TagBody(lines[1], "filter_out") = "true"
    THEN [raised |-> FALSE, filter_out |-> TRUE, reason |-> ""]
    ELSE IF Len(lines) < 2 \/ ~HasTag(lines[2], "reason")
    THEN [raised |-> TRUE, filter_out |-> FALSE, reason |-> ""]
    ELSE [raised |-> FALSE, filter_out |-> FALSE, reason |-> TagBody(lines[2], "reason")]

\* Values of song.reasoning.  A string is a text and, when it was formatted
\* with f"... (similarity: {score:.3f})", the score; NoScore when it was not.
\* A tuple is the Python tuple (filter_out, reason).
NoScore == -1
Str(text, score) == [type |-> "str", filter_out |-> FALSE, text |-> text, similarity |-> score]
Tuple(filter_out, reason) ==
    [type |-> "tuple", filter_out |-> filter_out, text |-> reason, similarity |-> NoScore]

\* str() of the tuple (filter_out, reason), as an f-string renders it.
TupleRepr(filter_out, reason) ==
    CASE filter_out /\ reason = "" -> "(True, '')"
      [] ~filter_out /\ reason = "" -> "(False, '')"
      [] ~filter_out /\ reason = MatchText -> "(False, 'Matching first name.')"
      [] OTHER -> "(True, 'Matching first name.')"

FallbackText == "Vector similarity match based on semantic content"

\* A fallback that forgets the similarity score.
FallbackReasoningNoScore(score) == Str(FallbackText, NoScore)

\* search.py:479-482 (and 155-158, 176-179): the generic reasoning string.
FallbackReasoning(score) == Str(FallbackText, score)

ZeroTokens == [input_tokens |-> 0, output_tokens |-> 0, total_tokens |-> 0]

\* search.py:463-467: the cleaned usage of one call.
CleanedUsage(usage) ==
    [input_tokens |-> UsageGet(usage, "input_tokens", 0),
     output_tokens |-> UsageGet(usage, "output_tokens", 0),
     total_tokens |-> UsageGet(usage, "input_tokens", 0)
                         + UsageGet(usage, "output_tokens", 0)]

\* generate_individual_song_reasoning.  `call` says whether get_client or
\* generate raised and, if not, what text came back.  `reason` is bound to
\* what the decoder returns, the tuple, and is stored or formatted as such.
generate_individual_song_reasoning(call, score, usage) ==
    LET decoded == decode_individual_song_reasoning(call.response) IN
    IF call.fails \/ decoded.raised
    THEN [reasoning |-> FallbackReasoning(score), token_usage |-> ZeroTokens,
          fell_back |-> TRUE]
    ELSE [reasoning |->
              IF score # NoScore
              THEN Str(TupleRepr(decoded.filter_out, decoded.reason), score)
              ELSE Tuple(decoded.filter_out, decoded.reason),
          token_usage |-> CleanedUsage(usage),
          fell_back |-> FALSE]

\* search.py:139: reasoned_songs[song_index] = song_with_reasoning
StoreByCompletion(reasoned, song_index, song) ==
    LET free == {k \in 1..Len(reasoned) : reasoned[k] = 0}
    IN  [reasoned EXCEPT ![CHOOSE k \in free : \A j \in free : k <= j] = song]

StoreByIndex(reasoned, song_index, song) == [reasoned EXCEPT ![song_index] = song]

\* An accumulator whose update is lost: it keeps the latest usage only.
AddTokensLostUpdate(total, usage) == usage

\* search.py:142-144
AddTokens(total, usage) ==
    [input_tokens |-> total.input_tokens + usage.input_tokens,
     output_tokens |-> total.output_tokens + usage.output_tokens,
     total_tokens |-> total.total_tokens + usage.total_tokens]

VARIABLES
    library,           \* search: the songs handed to search_library
    client_reports_usage, \* search: whether the client returns token counts
    n,                 \* search: number of songs asked for
    chunk_size,        \* search: songs per chunk
    generate_song_reasoning, \* search: the flag passed to search_library
    search_pc,         \* search: "idle", "start", "chunks", "reduce", "done", "raised"
    chunks,            \* search: the chunks built at line 46
    chunk_index,       \* search: chunks already searched
    filtered_songs,    \* search: concatenated chunk results
    total_token_usage, \* search: the aggregated usage
    returned_songs,    \* search: the list search_library returned
    song_reasoning,    \* search: song.reasoning of each song object
    model_calls,       \* search: client.generate calls made so far
    last_call,         \* search: sublibrary, response, result of the last recursive_search
    well_behaved       \* search: every response so far named exactly n ids

searchVars == <<library, client_reports_usage, n, chunk_size, generate_song_reasoning, search_pc, chunks,
                chunk_index, filtered_songs, total_token_usage, returned_songs,
                song_reasoning, model_calls, last_call, well_behaved>>

VARIABLES
    songs,             \* reasoning: the songs handed to generate_many_song_reasoning
    similarity_scores, \* reasoning: the scores handed in (<<>> for None or [])
    reasoning_pc,      \* reasoning: "idle", "submit", "collect", "done"
    worker_call,       \* reasoning: what the model call of each worker did
    future,            \* reasoning: "pending", "finished", "collected" per song
    future_tokens,     \* reasoning: the usage each finished worker returned
    reasoned_songs,    \* reasoning: the list filled at lines 139 and 159 (0 is None)
    item_reasoning,    \* reasoning: song.reasoning of each song object
    item_excluded,     \* reasoning: an attribute `excluded` of each song object
    total_reasoning_tokens, \* reasoning: the aggregated usage
    final_songs,       \* reasoning: the list generate_many_song_reasoning returned
    pool_failed,       \* reasoning: the outer except at line 171 ran
    first_collected,   \* reasoning: position of the future that completed first (0: none yet)
    llm_configured     \* reasoning: whether the credentials of the "openai-direct"
                       \*            client are set; never changes

reasoningVars == <<songs, similarity_scores, reasoning_pc, worker_call, future,
                   future_tokens, reasoned_songs, item_reasoning, item_excluded,
                   total_reasoning_tokens, final_songs, pool_failed, first_collected,
                   llm_configured>>

VARIABLES
    raw_songs,         \* enrich: the raw songs handed to enrich_songs
    song_has_embedding, \* whether the Song class that is loaded declares `embedding`
    enrich_pc,         \* enrich: "idle", "start", "running", "done"
    enrich_outcome,    \* enrich: what the providers did for each song
    enrich_future,     \* enrich: "pending", "finished", "yielded" per song
    enrich_result,     \* enrich: what each finished worker returned or raised
    yielded,           \* enrich: the songs the generator has yielded, in order
    db_songs,          \* the rows of the `songs` table
    total_enrichment_tokens, \* enrich: the running totals yielded with each song
    enrich_events      \* enrich: the upserts issued and the yields made, in order

enrichVars == <<raw_songs, song_has_embedding, enrich_pc, enrich_outcome, enrich_future,
                enrich_result, yielded, db_songs, total_enrichment_tokens, enrich_events>>

\* The variables of enrich_songs alone: the table and the class are shared
\* with the search flow.
enrichLocalVars == <<raw_songs, enrich_pc, enrich_outcome, enrich_future, enrich_result,
                     yielded, total_enrichment_tokens, enrich_events>>

VARIABLES
    flow_pc,           \* flow: "idle", "start", "library", "enrich", "vector", "rerank",
                       \*       "reason", "done"
    events,            \* flow: the types of the events streamed so far
    supabase_configured, \* whether SUPABASE_URL and SUPABASE_SERVICE_ROLE_KEY are set
    users_songs,       \* the song ids linked to the user in the users_songs table
    flow_raw_songs,    \* flow: raw_songs (main.py:519)
    already_processed, \* flow: already_processed_enriched_songs (main.py:528)
    unprocessed,       \* flow: unprocessed_raw_songs (main.py:528)
    enriched_songs,    \* flow: enriched_songs (main.py:550)
    flow_enrichment_tokens, \* flow: total_enrichment_tokens (main.py:551)
    vector_call,       \* flow: what vector_search_library was asked and found
    rerank_call,       \* flow: the library search_library was handed
    relevant_songs,    \* flow: relevant_songs (main.py:607, 622, 640)
    search_token_usage, \* flow: search_token_usage (main.py:607)
    reasoning_token_usage, \* flow: reasoning_token_usage (main.py:640)
    results_event,     \* flow: the payload of the results event
    flow_error         \* flow: the step whose exception reached line 708 ("" if none)

flowVars == <<flow_pc, events, supabase_configured, users_songs, flow_raw_songs,
              already_processed, unprocessed, enriched_songs, flow_enrichment_tokens,
              vector_call, rerank_call, relevant_songs, search_token_usage,
              reasoning_token_usage, results_event, flow_error>>

VARIABLES
    rs_pc,             \* recursive_search alone: "idle", "start", "returned", "raised"
    rs_sublibrary,     \* recursive_search alone: the sublibrary it was given
    rs_n,              \* recursive_search alone: the n it was given
    rs_flag,           \* recursive_search alone: generate_song_reasoning
    rs_calls,          \* recursive_search alone: calls of client.generate
    rs_response,       \* recursive_search alone: the text the model returned
    rs_result          \* recursive_search alone: the list it returned

recursiveVars == <<rs_pc, rs_sublibrary, rs_n, rs_flag, rs_calls, rs_response, rs_result>>

VARIABLES
    art_pc,            \* artists: "idle", "start", "saved", "loaded"
    artists,           \* artists: song.artists, a list of names
    artists_str,       \* artists: the `artists` column of the stored row
    artists_list       \* artists: the list built from the column

artistsVars == <<art_pc, artists, artists_str, artists_list>>

VARIABLES
    rerun_pc,          \* re-enrichment: "idle", "ready", "done"
    rerun_song,        \* re-enrichment: id of the raw song
    rerun_outcome,     \* re-enrichment: what the providers do for that song
    rerun_db,          \* re-enrichment: the rows of the songs table
    rerun_log          \* re-enrichment: per run, whether its upsert was applied
                       \*                and the row it built

rerunVars == <<rerun_pc, rerun_song, rerun_outcome, rerun_db, rerun_log>>

VARIABLES
    join_pc,           \* join table: per call "idle", "select", "insert", "done"
    join_songs,        \* join table: per call, the ids of its raw_songs
    join_existing,     \* join table: per call, existing_song_ids
    join_inserted,     \* join table: per call, the song ids of the rows it inserted
    join_after,        \* join table: per call, the calls that had returned
                       \*             without an error when it made its select
    join_raised,       \* join table: per call, whether its handler (line 109) ran
    join_rows,         \* join table: number of users_songs rows of the user per song id
    join_unique        \* join table: whether users_songs rejects a second row
                       \*             for the same (user_id, song_id)

joinVars == <<join_pc, join_songs, join_existing, join_inserted, join_after,
              join_raised, join_rows, join_unique>>

vars == <<searchVars, reasoningVars, enrichVars, flowVars, recursiveVars, artistsVars, rerunVars, joinVars>>

nonSearchVars == <<reasoningVars, enrichVars, flowVars, recursiveVars, artistsVars, rerunVars, joinVars>>
nonReasoningVars == <<searchVars, enrichVars, flowVars, recursiveVars, artistsVars, rerunVars, joinVars>>
nonEnrichVars == <<searchVars, reasoningVars, flowVars, recursiveVars, artistsVars, rerunVars, joinVars>>
nonFlowVars == <<searchVars, reasoningVars, enrichLocalVars, recursiveVars, artistsVars, rerunVars, joinVars>>
nonRecursiveVars == <<searchVars, reasoningVars, enrichVars, flowVars, artistsVars, rerunVars, joinVars>>
nonArtistsVars == <<searchVars, reasoningVars, enrichVars, flowVars, recursiveVars, rerunVars, joinVars>>
nonRerunVars == <<searchVars, reasoningVars, enrichVars, flowVars, recursiveVars, artistsVars, joinVars>>
nonJoinVars == <<searchVars, reasoningVars, enrichVars, flowVars, recursiveVars, artistsVars, rerunVars>>

ArtistsIdle ==
    /\ art_pc = "idle"
    /\ artists = <<>>
    /\ artists_str = <<>>
    /\ artists_list = <<>>

RerunIdle ==
    /\ rerun_pc = "idle"
    /\ rerun_song = 0
    /\ rerun_outcome = "none"
    /\ rerun_db = {}
    /\ rerun_log = <<>>

JoinIdle ==
    /\ join_pc = <<>>
    /\ join_songs = <<>>
    /\ join_existing = <<>>
    /\ join_inserted = <<>>
    /\ join_after = <<>>
    /\ join_raised = <<>>
    /\ join_rows = <<>>
    /\ join_unique = FALSE

RecursiveIdle ==
    /\ rs_pc = "idle"
    /\ rs_sublibrary = <<>>
    /\ rs_n = 0
    /\ rs_flag = FALSE
    /\ rs_calls = 0
    /\ rs_response = <<>>
    /\ rs_result = <<>>

\* Libraries of distinct songs: song k has id k.
Libraries == {[h \in 1..len |-> h] : len \in 0..MaxLib}

NoCall == [made |-> FALSE, final |-> FALSE, sublibrary |-> <<>>, response |-> <<>>,
           result |-> <<>>]

SearchIdle ==
    /\ library = <<>>
    /\ client_reports_usage = FALSE
    /\ n = 1
    /\ chunk_size = 1
    /\ generate_song_reasoning = FALSE
    /\ search_pc = "idle"
    /\ chunks = <<>>
    /\ chunk_index = 0
    /\ filtered_songs = <<>>
    /\ total_token_usage = ZeroTotals
    /\ returned_songs = <<>>
    /\ song_reasoning = <<>>
    /\ model_calls = 0
    /\ last_call = NoCall
    /\ well_behaved = TRUE

NoWorkerCall == [fails |-> FALSE, response |-> <<>>]

ReasoningIdle ==
    /\ llm_configured = TRUE
    /\ songs = <<>>
    /\ similarity_scores = <<>>
    /\ reasoning_pc = "idle"
    /\ worker_call = <<>>
    /\ future = <<>>
    /\ future_tokens = <<>>
    /\ reasoned_songs = <<>>
    /\ item_reasoning = <<>>
    /\ item_excluded = <<>>
    /\ total_reasoning_tokens = ZeroTokens
    /\ final_songs = <<>>
    /\ pool_failed = FALSE
    /\ first_collected = 0

ZeroEnrichmentTokens ==
    [total_input_tokens |-> 0, total_output_tokens |-> 0, total_requests |-> 0]

EnrichLocalIdle ==
    /\ raw_songs = <<>>
    /\ enrich_pc = "idle"
    /\ enrich_outcome = <<>>
    /\ enrich_future = <<>>
    /\ enrich_result = <<>>
    /\ yielded = <<>>
    /\ total_enrichment_tokens = ZeroEnrichmentTokens
    /\ enrich_events = <<>>

EnrichIdle ==
    /\ EnrichLocalIdle
    /\ song_has_embedding = FALSE
    /\ db_songs = {}

NoVectorCall == [made |-> FALSE, failed |-> FALSE, matches |-> <<>>, raised |-> FALSE,
                 embed_ok |-> TRUE, rpc_ok |-> TRUE, queries |-> <<>>, returned |-> <<>>]
NoRerankCall == [made |-> FALSE, library |-> <<>>]
NoResults == [results |-> <<>>,
              token_usage |-> [total_input_tokens |-> 0, total_output_tokens |-> 0,
                               total_requests |-> 0, reasoning_input_tokens |-> 0]]

FlowIdle ==
    /\ flow_pc = "idle"
    /\ events = <<>>
    /\ supabase_configured = FALSE
    /\ users_songs = {}
    /\ flow_raw_songs = <<>>
    /\ already_processed = <<>>
    /\ unprocessed = <<>>
    /\ enriched_songs = <<>>
    /\ flow_enrichment_tokens = ZeroEnrichmentTokens
    /\ vector_call = NoVectorCall
    /\ rerank_call = NoRerankCall
    /\ relevant_songs = <<>>
    /\ search_token_usage = ZeroTotals
    /\ reasoning_token_usage = ZeroTokens
    /\ results_event = NoResults
    /\ flow_error = ""

NonSearchIdle == ReasoningIdle /\ EnrichIdle /\ FlowIdle

\* search_library has been called with some library, n and chunk_size.
SearchInit ==
    /\ library \in Libraries
    /\ client_reports_usage \in BOOLEAN
    /\ n \in 1..MaxN
    /\ chunk_size \in 1..MaxChunk
    /\ generate_song_reasoning \in BOOLEAN
    /\ search_pc = "start"
    /\ chunks = <<>>
    /\ chunk_index = 0
    /\ filtered_songs = <<>>
    /\ total_token_usage = ZeroTotals
    /\ returned_songs = <<>>
    /\ song_reasoning = [h \in 1..Len(library) |-> ""]
    /\ model_calls = 0
    /\ last_call = NoCall
    /\ well_behaved = TRUE
    /\ NonSearchIdle
    /\ RecursiveIdle
    /\ JoinIdle
    /\ RerunIdle
    /\ ArtistsIdle

\* Reduction guards that are off by one, either way.
NeedsReductionAtLeast(filtered, count) == Len(filtered) >= count
NeedsReductionOffByOne(filtered, count) == Len(filtered) > count + 1
\* Line 79: if len(filtered_songs) > n
NeedsReduction(filtered, count) == Len(filtered) > count

\* Number of ids a response names.
IdCount(response) == Len(DecodeLines(response))

\* A search that calls the model again after a failed call.
CallFailedRetried(pc) == pc

\* Lines 61-63 and 79-80: recursive_search is called outside any try, and
\* has none around client.generate (lines 339-342): an exception of the
\* model call leaves search_library, whatever step it was in.
CallFailed(pc) == "raised"

\* Lines 27-59: the lyric statistics (min() of an empty list raises
\* ValueError), then the chunks and the empty accumulators.
SearchStart ==
    /\ search_pc = "start"
    /\ IF Len(library) = 0
       THEN /\ search_pc' = "raised"
            /\ UNCHANGED chunks
       ELSE /\ search_pc' = "chunks"
            /\ chunks' = Chunks(library, chunk_size)
    /\ UNCHANGED <<library, client_reports_usage, n, chunk_size, generate_song_reasoning, chunk_index,
                   filtered_songs, total_token_usage, returned_songs, song_reasoning,
                   model_calls, last_call, well_behaved>>
    /\ UNCHANGED nonSearchVars

\* Lines 61-73: one iteration of the loop over the chunks.  The model call
\* either raises (the exception leaves search_library) or returns a
\* response and a usage dictionary.
SearchChunk ==
    /\ search_pc = "chunks"
    /\ chunk_index < Len(chunks)
    /\ LET chunk == chunks[chunk_index + 1] IN
       \/ /\ search_pc' = CallFailed(search_pc)
          /\ model_calls' = model_calls + 1
          /\ UNCHANGED <<chunk_index, filtered_songs, total_token_usage,
                         song_reasoning, last_call, well_behaved>>
       \/ \E response \in RankingResponses(chunk, generate_song_reasoning) :
            LET chunk_results ==
                    RecursiveSearchResult(chunk, response, generate_song_reasoning)
                usage == Usage(client_reports_usage, chunk, response)
            IN  /\ filtered_songs' = filtered_songs \o chunk_results
                /\ song_reasoning' =
                       RecursiveSearchReasons(chunk, response,
                                              generate_song_reasoning, song_reasoning)
                /\ total_token_usage' = AddUsage(total_token_usage, usage)
                /\ chunk_index' = chunk_index + 1
                /\ model_calls' = model_calls + 1
                /\ last_call' = [made |-> TRUE, final |-> FALSE, sublibrary |-> chunk,
                                 response |-> response, result |-> chunk_results]
                /\ well_behaved' = (well_behaved /\ IdCount(response) = n)
                /\ UNCHANGED search_pc
    /\ UNCHANGED <<library, client_reports_usage, n, chunk_size, generate_song_reasoning, chunks,
                   returned_songs>>
    /\ UNCHANGED nonSearchVars

\* Lines 78-95: the final reduction pass when more than n songs are left
\* (called without the reasoning flag), else the concatenation is returned.
SearchReduce ==
    /\ search_pc = "chunks"
    /\ chunk_index = Len(chunks)
    /\ IF NeedsReduction(filtered_songs, n)
       THEN \/ /\ search_pc' = CallFailed(search_pc)
               /\ model_calls' = model_calls + 1
               /\ UNCHANGED <<total_token_usage, returned_songs, song_reasoning,
                              last_call, well_behaved>>
            \/ \E response \in RankingResponses(filtered_songs, FALSE) :
                 LET final_results ==
                         RecursiveSearchResult(filtered_songs, response, FALSE)
                     usage == Usage(client_reports_usage, filtered_songs, response)
                 IN  /\ returned_songs' = final_results
                     /\ song_reasoning' =
                            RecursiveSearchReasons(filtered_songs, response,
                                                   FALSE, song_reasoning)
                     /\ total_token_usage' = AddUsage(total_token_usage, usage)
                     /\ model_calls' = model_calls + 1
                     /\ last_call' = [made |-> TRUE, final |-> TRUE,
                                      sublibrary |-> filtered_songs,
                                      response |-> response, result |-> final_results]
                     /\ well_behaved' = (well_behaved /\ IdCount(response) = n)
                     /\ search_pc' = "done"
       ELSE /\ returned_songs' = filtered_songs
            /\ search_pc' = "done"
            /\ UNCHANGED <<total_token_usage, song_reasoning, model_calls, last_call,
                           well_behaved>>
    /\ UNCHANGED <<library, client_reports_usage, n, chunk_size, generate_song_reasoning, chunks,
                   chunk_index, filtered_songs>>
    /\ UNCHANGED nonSearchVars

SearchNext == SearchStart \/ SearchChunk \/ SearchReduce

SpecSearch == SearchInit /\ [][SearchNext]_vars

(***************************************************************************)
(* recursive_search (search.py:330-387) called on its own, as the tests of  *)
(* tests/test_search.py do: any sublibrary, the empty one included, in any  *)
(* order.                                                                  *)
(***************************************************************************)
Sublibraries ==
    {sub \in UNION {[1..len -> 1..MaxLib] : len \in 0..MaxLib} :
        \A i, j \in 1..Len(sub) : sub[i] = sub[j] => i = j}

RecursiveInit ==
    /\ rs_pc = "start"
    /\ rs_sublibrary \in Sublibraries
    /\ rs_n \in 1..MaxN
    /\ rs_flag \in BOOLEAN
    /\ rs_calls = 0
    /\ rs_response = <<>>
    /\ rs_result = <<>>
    /\ SearchIdle
    /\ NonSearchIdle
    /\ JoinIdle
    /\ RerunIdle
    /\ ArtistsIdle

\* search.py:331-387: the prompt, the one call of client.generate, which
\* raises or returns a text, then the decoding and the matching.
RecursiveSearch ==
    /\ rs_pc = "start"
    /\ rs_calls' = rs_calls + 1
    /\ \/ /\ rs_pc' = CallFailed(rs_pc)
          /\ UNCHANGED <<rs_response, rs_result>>
       \/ \E response \in RankingResponses(rs_sublibrary, rs_flag) :
            /\ rs_response' = response
            /\ rs_result' = RecursiveSearchResult(rs_sublibrary, response, rs_flag)
            /\ rs_pc' = "returned"
    /\ UNCHANGED <<rs_sublibrary, rs_n, rs_flag>>
    /\ UNCHANGED nonRecursiveVars

RecursiveNext == RecursiveSearch

SpecRecursive == RecursiveInit /\ [][RecursiveNext]_vars

(***************************************************************************)
(* generate_many_song_reasoning (search.py:97-181).  Song k of the input     *)
(* list is the object with id k.  Workers run in pool threads, the caller's  *)
(* thread collects their futures in the order they complete.                 *)
(***************************************************************************)
SongLists == {[h \in 1..len |-> h] : len \in 0..MaxSongs}

\* The score that comes with the song at position i (0-based in the code).
ScoreOf(i) == 900 - 100 * i

\* Score lists as long as the song list, shorter, or absent.
ScoreLists(count) == {[h \in 1..len |-> ScoreOf(h)] : len \in 0..count}

\* Lines 120 and 175
ScoreAt(scores, i) == IF scores # <<>> /\ i <= Len(scores) THEN scores[i] ELSE NoScore

WorkerCalls ==
    {[fails |-> TRUE, response |-> <<>>]}
        \cup {[fails |-> FALSE, response |-> r] : r \in ReasoningResponses}

\* search.py:431-443: the client is obtained and called inside the worker's
\* try block.  search_library/clients.py is not in the tree; without the
\* credentials of the provider get_client or generate raises, and either
\* does so at one of these lines.
WorkerCallsFor(configured) ==
    IF configured THEN WorkerCalls ELSE {call \in WorkerCalls : call.fails}

\* What the client reports for the call made for song i.
ReasoningUsage(i) ==
    [keys |-> {"input_tokens", "output_tokens"}, input_tokens |-> i + 1, output_tokens |-> 1]

ReasoningInit ==
    /\ llm_configured \in BOOLEAN
    /\ songs \in SongLists
    /\ similarity_scores \in ScoreLists(Len(songs))
    /\ reasoning_pc = "submit"
    /\ worker_call = [h \in 1..Len(songs) |-> NoWorkerCall]
    /\ future = [h \in 1..Len(songs) |-> "pending"]
    /\ future_tokens = [h \in 1..Len(songs) |-> ZeroTokens]
    /\ reasoned_songs = <<>>
    /\ item_reasoning = [h \in 1..Len(songs) |-> Str("", NoScore)]
    /\ item_excluded = [h \in 1..Len(songs) |-> "unset"]
    /\ total_reasoning_tokens = ZeroTokens
    /\ final_songs = <<>>
    /\ pool_failed = FALSE
    /\ first_collected = 0
    /\ SearchIdle
    /\ EnrichIdle
    /\ FlowIdle
    /\ RecursiveIdle
    /\ JoinIdle
    /\ RerunIdle
    /\ ArtistsIdle

\* Lines 110-133: nothing to do for an empty list; otherwise the tasks are
\* submitted and the accumulators created.
ReasoningSubmit ==
    /\ reasoning_pc = "submit"
    /\ IF Len(songs) = 0
       THEN /\ reasoning_pc' = "done"
            /\ UNCHANGED reasoned_songs
       ELSE /\ reasoning_pc' = "collect"
            /\ reasoned_songs' = [h \in 1..Len(songs) |-> 0]
    /\ UNCHANGED <<llm_configured, songs, similarity_scores, worker_call, future, future_tokens,
                   item_reasoning, item_excluded, total_reasoning_tokens,
                   final_songs, pool_failed, first_collected>>
    /\ UNCHANGED nonReasoningVars

\* Lines 171-181: the pool could not be created or a task not submitted.
\* Every song gets the generic reasoning and the input list is returned.
ReasoningPoolFails ==
    /\ reasoning_pc = "submit"
    /\ Len(songs) > 0
    /\ item_reasoning' =
           [h \in 1..Len(songs) |-> FallbackReasoning(ScoreAt(similarity_scores, h))]
    /\ final_songs' = songs
    /\ pool_failed' = TRUE
    /\ reasoning_pc' = "done"
    /\ UNCHANGED <<llm_configured, songs, similarity_scores, worker_call, future, future_tokens,
                   reasoned_songs, item_excluded, total_reasoning_tokens,
                   first_collected>>
    /\ UNCHANGED nonReasoningVars

\* One worker: generate_individual_song_reasoning for the song at position i.
ReasoningWorker ==
    /\ reasoning_pc = "collect"
    /\ \E i \in 1..Len(songs) :
         /\ future[i] = "pending"
         /\ \E call \in WorkerCallsFor(llm_configured) :
              LET outcome ==
                      generate_individual_song_reasoning(
                          call, ScoreAt(similarity_scores, i), ReasoningUsage(i))
              IN  /\ worker_call' = [worker_call EXCEPT ![i] = call]
                  /\ item_reasoning' = [item_reasoning EXCEPT ![songs[i]] = outcome.reasoning]
                  /\ future_tokens' = [future_tokens EXCEPT ![i] = outcome.token_usage]
                  /\ future' = [future EXCEPT ![i] = "finished"]
    /\ UNCHANGED <<llm_configured, songs, similarity_scores, reasoning_pc, reasoned_songs, item_excluded,
                   total_reasoning_tokens, final_songs, pool_failed, first_collected>>
    /\ UNCHANGED nonReasoningVars

\* Lines 135-159: one iteration of the as_completed loop, for any future
\* that has completed.  A worker returns normally whatever its call did, so
\* future.result() gives the song and its usage.
ReasoningCollect ==
    /\ reasoning_pc = "collect"
    /\ \E i \in 1..Len(songs) :
         /\ future[i] = "finished"
         /\ reasoned_songs' = StoreByIndex(reasoned_songs, i, songs[i])
         /\ total_reasoning_tokens' = AddTokens(total_reasoning_tokens, future_tokens[i])
         /\ future' = [future EXCEPT ![i] = "collected"]
         /\ first_collected' = IF first_collected = 0 THEN i ELSE first_collected
    /\ UNCHANGED <<llm_configured, songs, similarity_scores, reasoning_pc, worker_call, future_tokens,
                   item_reasoning, item_excluded, final_songs, pool_failed>>
    /\ UNCHANGED nonReasoningVars

\* Lines 161-169: every future has been collected.
ReasoningReturn ==
    /\ reasoning_pc = "collect"
    /\ \A i \in 1..Len(songs) : future[i] = "collected"
    /\ final_songs' = SelectSeq(reasoned_songs, LAMBDA song : song # 0)
    /\ reasoning_pc' = "done"
    /\ UNCHANGED <<llm_configured, songs, similarity_scores, worker_call, future, future_tokens,
                   reasoned_songs, item_reasoning, item_excluded,
                   total_reasoning_tokens, pool_failed, first_collected>>
    /\ UNCHANGED nonReasoningVars

ReasoningNext ==
    \/ ReasoningSubmit
    \/ ReasoningPoolFails
    \/ ReasoningWorker
    \/ ReasoningCollect
    \/ ReasoningReturn

SpecReasoning == ReasoningInit /\ [][ReasoningNext]_vars

(***************************************************************************)
(* enrich_songs and save_enriched_songs_to_db (utils.py:342-486).           *)
(*                                                                         *)
(* types.py:36-40 declares Song with lyrics, song_metadata and reasoning    *)
(* and no embedding, while utils.py:317-326 and 413-426 and                 *)
(* vector_search_library construct it with embedding= and utils.py:372      *)
(* reads song.embedding.  With the class as declared those constructor     *)
(* calls raise TypeError and that read raises AttributeError.  main.py:22-25 *)
(* puts the repository root first on sys.path, so the search_library        *)
(* package that gets imported need not be backend/search_library (which has *)
(* no clients module); the class that is loaded may declare the field.      *)
(* song_has_embedding is FALSE for the class as declared in types.py, and   *)
(* TRUE for one that declares the field; it never changes.                  *)
(***************************************************************************)
SKIP_EXPENSIVE_STEPS == FALSE
SKIP_SUPABASE_CACHE == FALSE

RawSongLists == {[h \in 1..len |-> h] : len \in 0..MaxRaw}

\* What get_lyrics, get_song_metadata and create_song_embedding do for one
\* song: all three return, get_lyrics returns "", or one of them raises.
ProviderOutcomes ==
    {"all_ok", "no_lyrics", "lyrics_raise", "metadata_raise", "embedding_raise"}

\* The usage get_song_metadata returns with its text.
MetadataUsage == [keys |-> {"input_tokens", "output_tokens"}, input_tokens |-> 3,
                  output_tokens |-> 1]

EmptyUsage == [keys |-> {}, input_tokens |-> 0, output_tokens |-> 0]

\* A Song object; embedding is "unset" when the object has no such attribute.
EnrichedSong(id, lyrics, song_metadata, embedding) ==
    [id |-> id, lyrics |-> lyrics, song_metadata |-> song_metadata, embedding |-> embedding]

\* utils.py:403-407: the three sub-steps of one worker, in the order of the
\* statements of its single try block.
SubSteps == {"lyrics", "song_metadata", "embedding"}

\* utils.py:403-421: the sub-steps that were called.  A sub-step that raises
\* leaves the try block, so the statements after it are not executed.
SubStepsRun(outcome) ==
    CASE outcome = "lyrics_raise" -> {"lyrics"}
      [] outcome = "metadata_raise" -> {"lyrics", "song_metadata"}
      [] OTHER -> SubSteps

\* utils.py:396-426.  The locals hold what was assigned before a step
\* raised.  Both return statements construct SearchSong(..., embedding=...):
\* when the class has no such field the first raises TypeError inside the
\* try, the handler's own constructor raises it again, and it leaves the
\* worker.
enrich_single_song(id, outcome, has_embedding) ==
    LET lyrics == IF outcome \in {"all_ok", "metadata_raise", "embedding_raise"}
                  THEN "lyrics" ELSE ""
        song_metadata == IF outcome \in {"all_ok", "no_lyrics", "embedding_raise"}
                         THEN "metadata" ELSE ""
        embedding == IF outcome \in {"all_ok", "no_lyrics"} THEN "vector" ELSE "empty"
        token_usage == IF outcome \in {"all_ok", "no_lyrics"}
                       THEN MetadataUsage ELSE EmptyUsage
    IN  IF has_embedding
        THEN [raised |-> FALSE,
              song |-> EnrichedSong(id, lyrics, song_metadata, embedding),
              token_usage |-> token_usage]
        ELSE [raised |-> TRUE,
              song |-> EnrichedSong(id, "", "", "unset"),
              token_usage |-> EmptyUsage]

NoResult == [raised |-> FALSE, song |-> EnrichedSong(0, "", "", "unset"),
             token_usage |-> EmptyUsage]

\* A save that inserts the row and leaves a row with the same id in place.
SaveInsertsRow(db, song, store_ok) ==
    IF song.embedding = "unset" \/ ~store_ok
    THEN db
    ELSE db \cup {song}

\* utils.py:342-381 for a one-song list.  Reading song.embedding of an
\* object without that attribute raises inside the try, as a failing upsert
\* does; either way nothing is written and nothing is raised.  An upsert
\* replaces the row with the same id.
save_enriched_songs_to_db(db, song, store_ok) ==
    IF song.embedding = "unset" \/ ~store_ok
    THEN db
    ELSE {row \in db : row.id # song.id} \cup {song}

\* What the store does for one call of save_enriched_songs_to_db:
\* "unavailable" is utils.py:351-353 (no credentials, the function returns
\* before building anything), "upsert_raises" an upsert that was sent and
\* failed (utils.py:377, caught at 380), "ok" an upsert that was applied.
StoreOutcomes == {"ok", "upsert_raises", "unavailable"}

\* utils.py:357-377: the upsert is sent once the rows are built, and
\* building a row reads song.embedding (line 372), which raises inside the
\* try for an object without that attribute.
UpsertIssued(song, store) ==
    /\ ~SKIP_SUPABASE_CACHE
    /\ store # "unavailable"
    /\ song.embedding # "unset"

\* utils.py:377 and utils.py:456, 479: the effects of one loop iteration
\* that the store and the consumer see.
UpsertEvent(id) == [op |-> "upsert", id |-> id]
YieldEvent(id) == [op |-> "yield", id |-> id]

\* A handler that gives up on the song instead of yielding it.
FailedSongDropped(id) == <<>>

\* utils.py:462-470: the song yielded when the worker raised.
FailedSongYielded(id) == <<EnrichedSong(id, "", "", "unset")>>

\* utils.py:447-449
AddEnrichmentTokens(total, usage) ==
    [total_input_tokens |-> total.total_input_tokens + UsageGet(usage, "input_tokens", 0),
     total_output_tokens |-> total.total_output_tokens + UsageGet(usage, "output_tokens", 0),
     total_requests |-> total.total_requests + (IF SKIP_EXPENSIVE_STEPS THEN 0 ELSE 1)]

EnrichInit ==
    /\ raw_songs \in RawSongLists
    /\ song_has_embedding \in BOOLEAN
    /\ enrich_pc = "start"
    /\ enrich_outcome = [h \in 1..Len(raw_songs) |-> "none"]
    /\ enrich_future = [h \in 1..Len(raw_songs) |-> "pending"]
    /\ enrich_result = [h \in 1..Len(raw_songs) |-> NoResult]
    /\ yielded = <<>>
    /\ db_songs = {}
    /\ total_enrichment_tokens = ZeroEnrichmentTokens
    /\ enrich_events = <<>>
    /\ SearchIdle
    /\ ReasoningIdle
    /\ FlowIdle
    /\ RecursiveIdle
    /\ JoinIdle
    /\ RerunIdle
    /\ ArtistsIdle

\* utils.py:428-437: an empty list ends the generator; otherwise every song
\* is submitted to the pool.
EnrichStart ==
    /\ enrich_pc = "start"
    /\ enrich_pc' = IF Len(raw_songs) = 0 THEN "done" ELSE "running"
    /\ UNCHANGED <<raw_songs, song_has_embedding, enrich_outcome, enrich_future,
                   enrich_result, yielded, db_songs, total_enrichment_tokens,
                   enrich_events>>
    /\ UNCHANGED nonEnrichVars

\* One pool task: enrich_single_song for the song at position i.
EnrichWorker ==
    /\ enrich_pc = "running"
    /\ \E i \in 1..Len(raw_songs) :
         /\ enrich_future[i] = "pending"
         /\ \E outcome \in ProviderOutcomes :
              /\ enrich_outcome' = [enrich_outcome EXCEPT ![i] = outcome]
              /\ enrich_result' =
                     [enrich_result EXCEPT
                        ![i] = enrich_single_song(raw_songs[i], outcome, song_has_embedding)]
              /\ enrich_future' = [enrich_future EXCEPT ![i] = "finished"]
    /\ UNCHANGED <<raw_songs, song_has_embedding, enrich_pc, yielded, db_songs,
                   total_enrichment_tokens, enrich_events>>
    /\ UNCHANGED nonEnrichVars

\* utils.py:440-481: one iteration of the as_completed loop, up to and
\* including its yield, for any future that has completed.
EnrichYield ==
    /\ enrich_pc = "running"
    /\ \E i \in 1..Len(raw_songs), store \in StoreOutcomes :
         /\ enrich_future[i] = "finished"
         /\ IF enrich_result[i].raised
            THEN LET out == FailedSongYielded(raw_songs[i]) IN
                 /\ db_songs' =
                        IF SKIP_SUPABASE_CACHE \/ out = <<>> THEN db_songs
                        ELSE save_enriched_songs_to_db(db_songs, out[1], store = "ok")
                 /\ yielded' = yielded \o out
                 /\ enrich_events' =
                        enrich_events
                        \o (IF out # <<>> /\ UpsertIssued(out[1], store)
                            THEN <<UpsertEvent(raw_songs[i])>> ELSE <<>>)
                        \o (IF out # <<>> THEN <<YieldEvent(raw_songs[i])>> ELSE <<>>)
                 /\ UNCHANGED total_enrichment_tokens
            ELSE /\ total_enrichment_tokens' =
                        AddEnrichmentTokens(total_enrichment_tokens,
                                            enrich_result[i].token_usage)
                 /\ db_songs' =
                        IF SKIP_SUPABASE_CACHE THEN db_songs
                        ELSE save_enriched_songs_to_db(db_songs, enrich_result[i].song,
                                                       store = "ok")
                 /\ yielded' = Append(yielded, enrich_result[i].song)
                 /\ enrich_events' =
                        enrich_events
                        \o (IF UpsertIssued(enrich_result[i].song, store)
                            THEN <<UpsertEvent(raw_songs[i])>> ELSE <<>>)
                        \o <<YieldEvent(raw_songs[i])>>
         /\ enrich_future' = [enrich_future EXCEPT ![i] = "yielded"]
    /\ UNCHANGED <<raw_songs, song_has_embedding, enrich_pc, enrich_outcome, enrich_result>>
    /\ UNCHANGED nonEnrichVars

\* Every future has been handled: the pool is shut down and the generator ends.
EnrichFinish ==
    /\ enrich_pc = "running"
    /\ \A i \in 1..Len(raw_songs) : enrich_future[i] = "yielded"
    /\ enrich_pc' = "done"
    /\ UNCHANGED <<raw_songs, song_has_embedding, enrich_outcome, enrich_future,
                   enrich_result, yielded, db_songs, total_enrichment_tokens,
                   enrich_events>>
    /\ UNCHANGED nonEnrichVars

EnrichNext == EnrichStart \/ EnrichWorker \/ EnrichYield \/ EnrichFinish

SpecEnrich == EnrichInit /\ [][EnrichNext]_vars

(***************************************************************************)
(* The search flow: spotify_search.event_stream (main.py:460-716), with     *)
(* get_songs_from_playlists, fetch_already_processed_enriched_songs,        *)
(* update_users_songs_join_table and vector_search_library.  One request    *)
(* of one user.  The yields of the handler delimit its steps; the steps     *)
(* below each end at a yield.                                               *)
(***************************************************************************)
ADD_RERANKER_TO_VECTOR_SEARCH == TRUE

\* main.py:610 and 622: the arguments the flow passes.
VectorN == 20
RerankN == 10
RerankChunkSize == 100

\* id of the padding song "random-i" (real songs have ids 1, 2, ...)
RandomId(i) == -(i + 1)

\* id of the song convert_genius_result_to_search_song builds
InstantSongId == 1000

\* instant_llm.py:273: the reasoning that song is built with
InstantReasonText == "Instant match found via Genius search for query containing lyrics."

\* The songs read from the playlists, cut at HARDCODE_SONG_COUNT and already
\* without duplicates.
RealLibraries == {[h \in 1..len |-> h] : len \in 0..HARDCODE_SONG_COUNT}

\* utils.py:253-264: fewer songs than HARDCODE_SONG_COUNT are padded with
\* random songs.
PaddedLibrary(unique_songs) ==
    IF HARDCODE_SONG_COUNT > 0 /\ Len(unique_songs) < HARDCODE_SONG_COUNT
    THEN unique_songs \o
             [k \in 1..(HARDCODE_SONG_COUNT - Len(unique_songs)) |-> RandomId(k - 1)]
    ELSE unique_songs

\* A row an earlier request saved.
SavedRow(id) == EnrichedSong(id, "lyrics", "metadata", "vector")

DbIds(db) == {row.id : row \in db}

\* utils.py:271-340.  Without credentials, or when the query or the
\* construction of a SearchSong raises, every song counts as unprocessed.
fetch_already_processed_enriched_songs(raw, db, configured, has_embedding) ==
    LET in_db(id) == id \in DbIds(db)
        not_in_db(id) == id \notin DbIds(db)
    IN  IF ~configured THEN [processed |-> <<>>, unprocessed |-> raw]
        ELSE IF raw = <<>> THEN [processed |-> <<>>, unprocessed |-> <<>>]
        ELSE IF ~has_embedding /\ \E k \in 1..Len(raw) : in_db(raw[k])
        THEN [processed |-> <<>>, unprocessed |-> raw]
        ELSE [processed |-> SelectSeq(raw, in_db), unprocessed |-> SelectSeq(raw, not_in_db)]

\* main.py:74-111: links every song of raw_songs not yet linked; an error is
\* printed and swallowed.
update_users_songs_join_table(linked, raw, ok) ==
    IF ok THEN linked \cup {raw[k] : k \in 1..Len(raw)} ELSE linked

RECURSIVE SortedSeq(_)
SortedSeq(S) ==
    IF S = {} THEN <<>>
    ELSE LET least == CHOOSE x \in S : \A y \in S : x <= y
         IN  <<least>> \o SortedSeq(S \ {least})

\* What match_songs_v2 can return: rows of the songs table that have an
\* embedding and are linked to the user, at most match_count of them.
VectorMatches(db, linked) ==
    LET matchable == {row.id : row \in {r \in db : r.embedding = "vector"}} \cap linked
    IN  {SortedSeq(S) : S \in {T \in SUBSET matchable : Cardinality(T) <= VectorN}}

\* main.py:611: match_threshold = 0.5, in hundredths.
MatchThreshold == 50

\* search.py:215-220: the parameters of the one rpc to match_songs_v2 that
\* carry the caller's threshold and count.
RpcQuery(match_threshold, match_count) ==
    [match_threshold |-> match_threshold, match_count |-> match_count]

\* What instant_search reports when it finds nothing.
InstantUsage == [total_input_tokens |-> 2, total_output_tokens |-> 1, total_requests |-> 1]

\* The calls of the reasoning workers in the flow.
FlowWorkerCalls ==
    { [fails |-> TRUE, response |-> <<>>],
      [fails |-> FALSE, response |-> << <<FilterTok("false")>>, <<ReasonTok(MatchText)>> >>],
      [fails |-> FALSE, response |-> << <<FilterTok("true")>>, <<ReasonTok("")>> >>] }

FlowProviderOutcomes == {"all_ok", "lyrics_raise"}

\* dict.get(key, default) on a record
DictGet(dict, key, default) == IF key \in DOMAIN dict THEN dict[key] ELSE default

RECURSIVE SumTokens(_, _)
SumTokens(usages, k) ==
    IF k = 0 THEN ZeroTokens ELSE AddTokens(SumTokens(usages, k - 1), usages[k])

\* main.py:656-659 and 671: the combined totals of the results event.
CombinedTokenUsage(search, enrichment, instant, reasoning) ==
    [total_input_tokens |->
         DictGet(search, "total_input_tokens", 0) + DictGet(enrichment, "total_input_tokens", 0)
           + DictGet(instant, "total_input_tokens", 0)
           + DictGet(reasoning, "total_input_tokens", 0),
     total_output_tokens |->
         DictGet(search, "total_output_tokens", 0) + DictGet(enrichment, "total_output_tokens", 0)
           + DictGet(instant, "total_output_tokens", 0)
           + DictGet(reasoning, "total_output_tokens", 0),
     total_requests |->
         DictGet(search, "total_requests", 0) + DictGet(enrichment, "total_requests", 0)
           + DictGet(instant, "total_requests", 0)
           + DictGet(reasoning, "total_requests", 0),
     reasoning_input_tokens |-> DictGet(reasoning, "total_input_tokens", 0)]

FlowInit ==
    /\ flow_pc = "start"
    /\ events = <<>>
    /\ supabase_configured \in BOOLEAN
    /\ song_has_embedding \in BOOLEAN
    /\ db_songs \in {{SavedRow(id) : id \in 1..count} : count \in 0..HARDCODE_SONG_COUNT}
    /\ users_songs = {}
    /\ flow_raw_songs = <<>>
    /\ already_processed = <<>>
    /\ unprocessed = <<>>
    /\ enriched_songs = <<>>
    /\ flow_enrichment_tokens = ZeroEnrichmentTokens
    /\ vector_call = NoVectorCall
    /\ rerank_call = NoRerankCall
    /\ relevant_songs = <<>>
    /\ search_token_usage = ZeroTotals
    /\ reasoning_token_usage = ZeroTokens
    /\ results_event = NoResults
    /\ flow_error = ""
    /\ SearchIdle
    /\ ReasoningIdle
    /\ EnrichLocalIdle
    /\ RecursiveIdle
    /\ JoinIdle
    /\ RerunIdle
    /\ ArtistsIdle

\* A handler that streams the error event and carries on with the step.
FlowRaisesAndGoesOn(step, sent) ==
    /\ events' = events \o sent \o <<"error">>
    /\ flow_error' = step
    /\ flow_pc' = flow_pc

\* main.py:708-716: an exception raised at `step` reaches the handler's
\* except clause; an error event is streamed after the events `sent` and the
\* stream ends.
FlowRaises(step, sent) ==
    /\ events' = events \o sent \o <<"error">>
    /\ flow_error' = step
    /\ flow_pc' = "done"

\* main.py:461-508: the start and status events and instant_search.
FlowStart ==
    /\ flow_pc = "start"
    /\ \E instant \in {"hit", "miss", "raise"} :
         IF instant = "raise"
         THEN /\ FlowRaises("instant_search", <<"start", "status">>)
              /\ UNCHANGED results_event
         ELSE IF instant = "hit"
         THEN /\ events' = events \o <<"start", "status", "status", "results">>
              /\ results_event' =
                     [results |-> <<[id |-> InstantSongId,
                                      reasoning |-> Str(InstantReasonText, NoScore)]>>,
                      token_usage |->
                          [total_input_tokens |-> InstantUsage.total_input_tokens,
                           total_output_tokens |-> InstantUsage.total_output_tokens,
                           total_requests |-> InstantUsage.total_requests,
                           reasoning_input_tokens |-> 0]]
              /\ flow_pc' = "done"
              /\ UNCHANGED flow_error
         ELSE /\ events' = events \o <<"start", "status", "status", "status">>
              /\ flow_pc' = "library"
              /\ UNCHANGED <<results_event, flow_error>>
    /\ UNCHANGED <<supabase_configured, users_songs, flow_raw_songs, already_processed,
                   unprocessed, enriched_songs, flow_enrichment_tokens, vector_call,
                   rerank_call, relevant_songs, search_token_usage,
                   reasoning_token_usage, song_has_embedding, db_songs>>
    /\ UNCHANGED nonFlowVars

\* main.py:510-555: the playlists, the raw songs, the cache lookup, the
\* first progress event, the user id and the join table.
FlowLibrary ==
    /\ flow_pc = "library"
    /\ \E fails_at \in {"none", "get_playlist_names", "get_songs_from_playlists",
                        "get_user_id"},
          real \in RealLibraries, join_ok \in BOOLEAN :
         LET raw == PaddedLibrary(real)
             fetched == fetch_already_processed_enriched_songs(
                            raw, db_songs, supabase_configured, song_has_embedding)
         IN  IF fails_at = "get_playlist_names"
             THEN /\ FlowRaises(fails_at, <<>>)
                  /\ UNCHANGED <<flow_raw_songs, already_processed, unprocessed, users_songs>>
             ELSE IF fails_at = "get_songs_from_playlists"
             THEN /\ FlowRaises(fails_at, <<"status">>)
                  /\ UNCHANGED <<flow_raw_songs, already_processed, unprocessed, users_songs>>
             ELSE /\ flow_raw_songs' = raw
                  /\ already_processed' = fetched.processed
                  /\ unprocessed' = fetched.unprocessed
                  /\ IF fails_at = "get_user_id"
                     THEN /\ FlowRaises(fails_at, <<"status", "status", "progress">>)
                          /\ UNCHANGED users_songs
                     ELSE /\ users_songs' =
                                 update_users_songs_join_table(
                                     users_songs, raw, join_ok /\ supabase_configured)
                          /\ events' = events \o <<"status", "status", "progress">>
                          /\ flow_pc' = "enrich"
                          /\ UNCHANGED flow_error
    /\ UNCHANGED <<supabase_configured, enriched_songs, flow_enrichment_tokens, vector_call,
                   rerank_call, relevant_songs, search_token_usage,
                   reasoning_token_usage, results_event, song_has_embedding, db_songs>>
    /\ UNCHANGED nonFlowVars

EnrichedIds == {enriched_songs[k].id : k \in 1..Len(enriched_songs)}

\* main.py:560-573: one iteration of the loop over enrich_songs: the
\* generator enriches, saves and yields one more song, the flow appends it
\* and streams a progress event.
FlowEnrichSong ==
    /\ flow_pc = "enrich"
    /\ \E k \in 1..Len(unprocessed), outcome \in FlowProviderOutcomes, store_ok \in BOOLEAN :
         /\ unprocessed[k] \notin EnrichedIds
         /\ LET result == enrich_single_song(unprocessed[k], outcome, song_has_embedding)
                out == IF result.raised THEN FailedSongYielded(unprocessed[k])
                       ELSE <<result.song>>
            IN  /\ db_songs' =
                       IF SKIP_SUPABASE_CACHE \/ out = <<>> THEN db_songs
                       ELSE save_enriched_songs_to_db(db_songs, out[1],
                                                      store_ok /\ supabase_configured)
                /\ flow_enrichment_tokens' =
                       IF result.raised THEN flow_enrichment_tokens
                       ELSE AddEnrichmentTokens(flow_enrichment_tokens, result.token_usage)
                /\ enriched_songs' = enriched_songs \o out
                /\ events' = Append(events, "progress")
    /\ UNCHANGED <<flow_pc, supabase_configured, users_songs, flow_raw_songs,
                   already_processed, unprocessed, vector_call, rerank_call,
                   relevant_songs, search_token_usage, reasoning_token_usage,
                   results_event, flow_error, song_has_embedding>>
    /\ UNCHANGED nonFlowVars

\* main.py:593-597: the generator is exhausted (or there was nothing to
\* enrich); the completion and status events.
FlowEnrichDone ==
    /\ flow_pc = "enrich"
    /\ \A k \in 1..Len(unprocessed) : unprocessed[k] \in EnrichedIds
    /\ events' = events \o <<"completion", "status">>
    /\ flow_pc' = "vector"
    /\ UNCHANGED <<supabase_configured, users_songs, flow_raw_songs, already_processed,
                   unprocessed, enriched_songs, flow_enrichment_tokens, vector_call,
                   rerank_call, relevant_songs, search_token_usage,
                   reasoning_token_usage, results_event, flow_error,
                   song_has_embedding, db_songs>>
    /\ UNCHANGED nonFlowVars

\* main.py:606-616 with search.py:183-280.  Without credentials
\* vector_search_library raises.  A failing query embedding is an empty
\* embedding with zero tokens.  Inside the try, the rpc may raise, and
\* Song(..., embedding=...) raises for the first row when the class has no
\* such field; either way the result is [] with an `error` entry.
FlowVectorSearch ==
    /\ flow_pc = "vector"
    /\ IF ~supabase_configured
       THEN /\ FlowRaises("vector_search_library", <<>>)
            /\ vector_call' = [made |-> TRUE, failed |-> TRUE, matches |-> <<>>,
                               raised |-> TRUE, embed_ok |-> TRUE, rpc_ok |-> TRUE,
                               queries |-> <<>>, returned |-> <<>>]
            /\ UNCHANGED <<relevant_songs, search_token_usage>>
       ELSE \E embed_ok \in BOOLEAN, rpc_ok \in BOOLEAN,
               matches \in VectorMatches(db_songs, users_songs) :
              LET found == IF rpc_ok THEN matches ELSE <<>>
                  failed == ~rpc_ok \/ (found # <<>> /\ ~song_has_embedding)
                  returned == IF failed THEN <<>> ELSE found
              IN  /\ vector_call' = [made |-> TRUE, failed |-> failed, matches |-> found,
                                     raised |-> FALSE, embed_ok |-> embed_ok,
                                     rpc_ok |-> rpc_ok,
                                     queries |-> <<RpcQuery(MatchThreshold, VectorN)>>,
                                     returned |-> returned]
                  /\ relevant_songs' = returned
                  /\ search_token_usage' =
                         [total_input_tokens |-> IF embed_ok THEN 1 ELSE 0,
                          total_output_tokens |-> 0,
                          total_requests |-> 1]
                  /\ flow_pc' = "rerank"
                  /\ UNCHANGED <<events, flow_error>>
    /\ UNCHANGED <<supabase_configured, users_songs, flow_raw_songs, already_processed,
                   unprocessed, enriched_songs, flow_enrichment_tokens, rerank_call,
                   reasoning_token_usage, results_event, song_has_embedding, db_songs>>
    /\ UNCHANGED nonFlowVars

\* main.py:619-636: search_library over the songs vector search returned,
\* with n = 10 and chunk_size = 100, then a status event.  At most 20 songs
\* come in, so there is one chunk.  An empty list raises at search.py:27.
FlowRerank ==
    /\ flow_pc = "rerank"
    /\ rerank_call' = [made |-> ADD_RERANKER_TO_VECTOR_SEARCH, library |-> relevant_songs]
    /\ IF ~ADD_RERANKER_TO_VECTOR_SEARCH
       THEN /\ events' = Append(events, "status")
            /\ flow_pc' = "reason"
            /\ UNCHANGED <<relevant_songs, search_token_usage, flow_error>>
       ELSE IF relevant_songs = <<>>
       THEN /\ FlowRaises("search_library", <<>>)
            /\ UNCHANGED <<relevant_songs, search_token_usage>>
       ELSE \/ /\ FlowRaises("client", <<>>)
               /\ UNCHANGED <<relevant_songs, search_token_usage>>
            \/ \E response \in RankingResponses(relevant_songs, FALSE) :
                 LET chunk == Chunks(relevant_songs, RerankChunkSize)[1]
                     chunk_results == RecursiveSearchResult(chunk, response, FALSE)
                     first_usage == AddUsage(ZeroTotals, Usage(TRUE, chunk, response))
                 IN  /\ IF NeedsReduction(chunk_results, RerankN)
                        THEN \E last \in RankingResponses(chunk_results, FALSE) :
                               /\ relevant_songs' =
                                      RecursiveSearchResult(chunk_results, last, FALSE)
                               /\ search_token_usage' =
                                      [total_input_tokens |->
                                           search_token_usage.total_input_tokens
                                             + AddUsage(first_usage,
                                                 Usage(TRUE, chunk_results, last)).total_input_tokens,
                                       total_output_tokens |->
                                           search_token_usage.total_output_tokens
                                             + AddUsage(first_usage,
                                                 Usage(TRUE, chunk_results, last)).total_output_tokens,
                                       total_requests |->
                                           search_token_usage.total_requests + 2]
                        ELSE /\ relevant_songs' = chunk_results
                             /\ search_token_usage' =
                                    [total_input_tokens |->
                                         search_token_usage.total_input_tokens
                                           + first_usage.total_input_tokens,
                                     total_output_tokens |->
                                         search_token_usage.total_output_tokens
                                           + first_usage.total_output_tokens,
                                     total_requests |->
                                         search_token_usage.total_requests
                                           + first_usage.total_requests]
                     /\ events' = Append(events, "status")
                     /\ flow_pc' = "reason"
                     /\ UNCHANGED flow_error
    /\ UNCHANGED <<supabase_configured, users_songs, flow_raw_songs, already_processed,
                   unprocessed, enriched_songs, flow_enrichment_tokens, vector_call,
                   reasoning_token_usage, results_event, song_has_embedding, db_songs>>
    /\ UNCHANGED nonFlowVars

\* main.py:640-705: generate_many_song_reasoning without similarity scores,
\* then the status event, the combined token usage and the results event.
\* A song named twice is one object that two workers write; it ends with
\* what one of them wrote.
FlowReason ==
    /\ flow_pc = "reason"
    /\ \E calls \in [1..Len(relevant_songs) -> FlowWorkerCalls],
          writer \in [1..Len(relevant_songs) -> 1..Len(relevant_songs)] :
         /\ \A k \in 1..Len(relevant_songs) :
               /\ relevant_songs[writer[k]] = relevant_songs[k]
               /\ \A j \in 1..Len(relevant_songs) :
                     relevant_songs[j] = relevant_songs[k] => writer[j] = writer[k]
         /\ LET outcome ==
                    [k \in 1..Len(relevant_songs) |->
                        generate_individual_song_reasoning(calls[k], NoScore,
                                                           ReasoningUsage(k))]
                usages == [k \in 1..Len(relevant_songs) |-> outcome[k].token_usage]
                reasoning_tokens == SumTokens(usages, Len(relevant_songs))
            IN  /\ reasoning_token_usage' = reasoning_tokens
                /\ results_event' =
                       [results |->
                            [k \in 1..Len(relevant_songs) |->
                                [id |-> relevant_songs[k],
                                 reasoning |-> outcome[writer[k]].reasoning]],
                        token_usage |->
                            CombinedTokenUsage(search_token_usage, flow_enrichment_tokens,
                                               InstantUsage, reasoning_tokens)]
    /\ events' = events \o <<"status", "results">>
    /\ flow_pc' = "done"
    /\ UNCHANGED <<supabase_configured, users_songs, flow_raw_songs, already_processed,
                   unprocessed, enriched_songs, flow_enrichment_tokens, vector_call,
                   rerank_call, relevant_songs, search_token_usage, flow_error,
                   song_has_embedding, db_songs>>
    /\ UNCHANGED nonFlowVars

FlowNext ==
    \/ FlowStart
    \/ FlowLibrary
    \/ FlowEnrichSong
    \/ FlowEnrichDone
    \/ FlowVectorSearch
    \/ FlowRerank
    \/ FlowReason

SpecFlow == FlowInit /\ [][FlowNext]_vars

(***************************************************************************)
(* The `artists` column: written by save_enriched_songs_to_db              *)
(* (utils.py:362), read back by fetch_already_processed_enriched_songs      *)
(* (utils.py:315) and vector_search_library (search.py:229).  A string is a *)
(* sequence of characters; a name is any string over a letter, the comma    *)
(* and the space.                                                          *)
(***************************************************************************)
MaxNameLen == 2
MaxArtists == 2

NameChars == {"a", ",", " "}

Names == UNION {[1..len -> NameChars] : len \in 0..MaxNameLen}

ArtistLists == UNION {[1..len -> Names] : len \in 0..MaxArtists}

\* sep.join(parts)
RECURSIVE Join(_, _)
Join(sep, parts) ==
    IF parts = <<>> THEN <<>>
    ELSE IF Len(parts) = 1 THEN parts[1]
    ELSE parts[1] \o sep \o Join(sep, Tail(parts))

\* str.split(ch) for a one-character separator: one more part than there
\* are separators, so the empty string gives one empty part.
RECURSIVE Split(_, _)
Split(str, ch) ==
    IF \A k \in 1..Len(str) : str[k] # ch THEN <<str>>
    ELSE LET first == CHOOSE k \in 1..Len(str) :
                          /\ str[k] = ch
                          /\ \A j \in 1..(k - 1) : str[j] # ch
         IN  <<SubSeq(str, 1, first - 1)>> \o Split(SubSeq(str, first + 1, Len(str)), ch)

\* str.strip()
RECURSIVE Strip(_)
Strip(str) ==
    IF str # <<>> /\ str[1] = " " THEN Strip(Tail(str))
    ELSE IF str # <<>> /\ str[Len(str)] = " " THEN Strip(SubSeq(str, 1, Len(str) - 1))
    ELSE str

\* utils.py:362: artists_str = ', '.join(song.artists)
SerializeArtists(names) == Join(<<",", " ">>, names)

\* utils.py:315 and search.py:229:
\* [artist.strip() for artist in db_song['artists'].split(',')]
DeserializeArtists(str) ==
    LET parts == Split(str, ",") IN [k \in 1..Len(parts) |-> Strip(parts[k])]

ArtistsInit ==
    /\ art_pc = "start"
    /\ artists \in ArtistLists
    /\ artists_str = <<>>
    /\ artists_list = <<>>
    /\ SearchIdle /\ NonSearchIdle
    /\ RecursiveIdle
    /\ JoinIdle
    /\ RerunIdle

\* utils.py:357-377: the row of the song is built and upserted.
ArtistsSave ==
    /\ art_pc = "start"
    /\ artists_str' = SerializeArtists(artists)
    /\ art_pc' = "saved"
    /\ UNCHANGED <<artists, artists_list>>
    /\ UNCHANGED nonArtistsVars

\* utils.py:311-326 and search.py:225-240: the row is read back.
ArtistsLoad ==
    /\ art_pc = "saved"
    /\ artists_list' = DeserializeArtists(artists_str)
    /\ art_pc' = "loaded"
    /\ UNCHANGED <<artists, artists_str>>
    /\ UNCHANGED nonArtistsVars

ArtistsNext == ArtistsSave \/ ArtistsLoad

SpecArtists == ArtistsInit /\ [][ArtistsNext]_vars

(***************************************************************************)
(* enrich_songs run again for a raw song that has not changed               *)
(* (utils.py:383-486 with save_enriched_songs_to_db, utils.py:342-381).     *)
(* The providers are deterministic: every run of the song gets the same     *)
(* outcome from them.  The store may already hold a row for the song, with  *)
(* other values, and rows of other songs.                                   *)
(***************************************************************************)
MaxRuns == 2

\* A row of the song with values no provider outcome of the model gives.
StaleRow(id) == EnrichedSong(id, "old lyrics", "old metadata", "old vector")

InitialStores(id) == SUBSET {StaleRow(id), SavedRow(id + 1)}

RowsOf(db, id) == {row \in db : row.id = id}

\* utils.py:440-481 for a one-song list: the song the loop iteration hands
\* to save_enriched_songs_to_db, the worker's result or, when the worker
\* raised, the empty song built at lines 464-468.
SongToSave(id, outcome, has_embedding) ==
    LET result == enrich_single_song(id, outcome, has_embedding)
    IN  IF result.raised THEN FailedSongYielded(id)[1] ELSE result.song

RerunInit ==
    /\ rerun_pc = "ready"
    /\ rerun_song \in 1..MaxIds
    /\ rerun_outcome \in ProviderOutcomes
    /\ rerun_db \in InitialStores(rerun_song)
    /\ rerun_log = <<>>
    /\ song_has_embedding \in BOOLEAN
    /\ db_songs = {}
    /\ SearchIdle
    /\ ReasoningIdle
    /\ EnrichLocalIdle
    /\ FlowIdle
    /\ RecursiveIdle
    /\ JoinIdle
    /\ ArtistsIdle

\* One whole run of enrich_songs([song]): the worker, the save and the yield.
RerunEnrich ==
    /\ rerun_pc = "ready"
    /\ Len(rerun_log) < MaxRuns
    /\ \E store \in StoreOutcomes :
         LET song == SongToSave(rerun_song, rerun_outcome, song_has_embedding)
         IN  /\ rerun_db' = IF SKIP_SUPABASE_CACHE THEN rerun_db
                            ELSE save_enriched_songs_to_db(rerun_db, song, store = "ok")
             /\ rerun_log' = Append(rerun_log,
                                    [applied |-> UpsertIssued(song, store) /\ store = "ok",
                                     row |-> song])
    /\ UNCHANGED <<rerun_pc, rerun_song, rerun_outcome>>
    /\ UNCHANGED nonRerunVars

\* The caller stops asking for the song.
RerunStop ==
    /\ rerun_pc = "ready"
    /\ rerun_log # <<>>
    /\ rerun_pc' = "done"
    /\ UNCHANGED <<rerun_song, rerun_outcome, rerun_db, rerun_log>>
    /\ UNCHANGED nonRerunVars

RerunNext == RerunEnrich \/ RerunStop

SpecRerun == RerunInit /\ [][RerunNext]_vars

(***************************************************************************)
(* update_users_songs_join_table (main.py:74-111) called by two requests    *)
(* of the same user (main.py:547).  A call is a select and then an insert,  *)
(* two requests to the store; the requests of the two calls interleave.     *)
(* The repository does not define the users_songs table: join_unique says   *)
(* whether the table rejects a second row for the same pair.  The lists of  *)
(* the callers hold every id at most once (utils.py:251).                   *)
(***************************************************************************)
Callers == {1, 2}

SongIdSets == SUBSET (1..MaxIds)

\* main.py:91-98: the rows to insert, for raw_songs without duplicates.
NewSongs(raw_ids, existing_song_ids) == raw_ids \ existing_song_ids

\* main.py:104: one insert of several rows.  A table that rejects duplicate
\* pairs rejects the whole statement when one of its rows is a duplicate.
InsertRows(rows, new_songs, unique) ==
    IF unique /\ \E id \in new_songs : rows[id] > 0
    THEN [raised |-> TRUE, rows |-> rows]
    ELSE [raised |-> FALSE,
          rows |-> [id \in DOMAIN rows |-> IF id \in new_songs THEN rows[id] + 1
                                           ELSE rows[id]]]

JoinInit ==
    /\ join_pc = [p \in Callers |-> "select"]
    /\ join_songs \in [Callers -> SongIdSets]
    /\ join_existing = [p \in Callers |-> {}]
    /\ join_inserted = [p \in Callers |-> {}]
    /\ join_after = [p \in Callers |-> {}]
    /\ join_raised = [p \in Callers |-> FALSE]
    /\ \E linked \in SongIdSets :
         join_rows = [id \in 1..MaxIds |-> IF id \in linked THEN 1 ELSE 0]
    /\ join_unique \in BOOLEAN
    /\ SearchIdle /\ NonSearchIdle
    /\ RecursiveIdle
    /\ ArtistsIdle
    /\ RerunIdle

\* main.py:80-100: the select and the computation of new_songs.  A select
\* that raises ends the call (lines 109-111), as does an empty new_songs
\* (line 107).
JoinSelect(p) ==
    /\ join_pc[p] = "select"
    /\ \E select_ok \in BOOLEAN :
         LET existing_song_ids == {id \in 1..MaxIds : join_rows[id] > 0}
             new_songs == NewSongs(join_songs[p], existing_song_ids)
         IN  IF select_ok
             THEN /\ join_existing' = [join_existing EXCEPT ![p] = existing_song_ids]
                  /\ join_pc' = [join_pc EXCEPT
                                   ![p] = IF new_songs = {} THEN "done" ELSE "insert"]
                  /\ join_after' =
                         [join_after EXCEPT
                            ![p] = {q \in Callers \ {p} : join_pc[q] = "done"
                                                          /\ ~join_raised[q]}]
                  /\ UNCHANGED join_raised
             ELSE /\ join_pc' = [join_pc EXCEPT ![p] = "done"]
                  /\ join_raised' = [join_raised EXCEPT ![p] = TRUE]
                  /\ UNCHANGED <<join_existing, join_after>>
    /\ UNCHANGED <<join_songs, join_inserted, join_rows, join_unique>>
    /\ UNCHANGED nonJoinVars

\* main.py:103-105: the insert of new_songs; an insert that raises is
\* caught at lines 109-111.
JoinInsert(p) ==
    /\ join_pc[p] = "insert"
    /\ \E insert_ok \in BOOLEAN :
         LET new_songs == NewSongs(join_songs[p], join_existing[p])
             result == InsertRows(join_rows, new_songs, join_unique)
         IN  IF insert_ok /\ ~result.raised
             THEN /\ join_rows' = result.rows
                  /\ join_inserted' = [join_inserted EXCEPT ![p] = new_songs]
                  /\ UNCHANGED join_raised
             ELSE /\ join_raised' = [join_raised EXCEPT ![p] = TRUE]
                  /\ UNCHANGED <<join_rows, join_inserted>>
    /\ join_pc' = [join_pc EXCEPT ![p] = "done"]
    /\ UNCHANGED <<join_songs, join_existing, join_after, join_unique>>
    /\ UNCHANGED nonJoinVars

JoinNext == \E p \in Callers : JoinSelect(p) \/ JoinInsert(p)

SpecJoin == JoinInit /\ [][JoinNext]_vars

(***************************************************************************)
(* Properties of search_library and recursive_search.                       *)
(***************************************************************************)
CeilDiv(a, b) == (a + b - 1) \div b

Elems(seq) == {seq[k] : k \in 1..Len(seq)}

RECURSIVE Concat(_)
Concat(seqs) == IF seqs = <<>> THEN <<>> ELSE Head(seqs) \o Concat(Tail(seqs))

\* The ids a response names, whatever else its lines hold.
NamedIds(response) ==
    {response[k][1].id : k \in {j \in 1..Len(response) : response[j][1].tag = "song_id"}}

\* C1: every song recursive_search returns is a song of the sublibrary it
\* was given; an id the model invented is not in the result, and the call
\* that named it returned normally.
C1_NeverHallucinate ==
    last_call.made =>
        /\ Elems(last_call.result) \subseteq Elems(last_call.sublibrary)
        /\ UnknownId \notin Elems(last_call.result)

C1_Witness ==
    /\ last_call.made
    /\ UnknownId \in NamedIds(last_call.response)
    /\ Len(last_call.result) > 0
    /\ search_pc \in {"chunks", "done"}

\* The chunks have been built and search_library has not failed before that.
ChunksBuilt == search_pc \in {"chunks", "done"} \/ (search_pc = "raised" /\ model_calls > 0)

\* C2: one model call per chunk, then exactly one more over the concatenated
\* chunk results iff there are more than n of them; otherwise the
\* concatenation is returned as is.  Never more than ceil(L/C) + 1 calls.
C2_FinalReductionPass ==
    /\ model_calls <= CeilDiv(Len(library), chunk_size) + 1
    /\ search_pc = "chunks" => model_calls = chunk_index
    /\ search_pc = "done" =>
          /\ chunk_index = CeilDiv(Len(library), chunk_size)
          /\ IF Len(filtered_songs) > n
             THEN /\ model_calls = CeilDiv(Len(library), chunk_size) + 1
                  /\ last_call.final
                  /\ last_call.sublibrary = filtered_songs
                  /\ returned_songs = last_call.result
             ELSE /\ model_calls = CeilDiv(Len(library), chunk_size)
                  /\ ~last_call.final
                  /\ returned_songs = filtered_songs

C2_Witness ==
    /\ search_pc = "done"
    /\ Len(chunks) >= 2
    /\ last_call.final
    /\ Len(filtered_songs) = n + 1

\* C3: phase 1 uses exactly ceil(L/C) chunks, consecutive slices in input
\* order, all of C songs except possibly the last, covering every library
\* position exactly once; the k-th call is given the k-th chunk.
C3_ChunkCoverage ==
    ChunksBuilt =>
        /\ Len(chunks) = CeilDiv(Len(library), chunk_size)
        /\ Concat(chunks) = library
        /\ \A k \in 1..Len(chunks) :
              /\ k < Len(chunks) => Len(chunks[k]) = chunk_size
              /\ Len(chunks[k]) \in 1..chunk_size
        /\ (last_call.made /\ ~last_call.final) =>
              last_call.sublibrary = chunks[chunk_index]

C3_Witness ==
    /\ search_pc = "done"
    /\ Len(chunks) >= 2
    /\ Len(chunks[Len(chunks)]) < chunk_size
    /\ chunk_index = Len(chunks)

\* C4: with a model that names exactly n ids on every call, search_library
\* returns at most n songs.
C4_ResultCountBound ==
    (search_pc = "done" /\ well_behaved) => Len(returned_songs) <= n

C4_Witness ==
    /\ search_pc = "done"
    /\ well_behaved
    /\ last_call.final
    /\ Len(returned_songs) = n
    /\ Len(filtered_songs) > n

\* The (id, text) pairs of a response: an id with a <reason> after it on the
\* same line or on the next line.
ReasonPairs(response) ==
    {[id |-> response[k][1].id, text |-> response[k][2].text] :
        k \in {j \in 1..Len(response) :
                 /\ Len(response[j]) >= 2
                 /\ response[j][1].tag = "song_id"
                 /\ response[j][2].tag = "reason"}}
      \cup
    {[id |-> response[k][1].id, text |-> response[k + 1][1].text] :
        k \in {j \in 1..(Len(response) - 1) :
                 /\ Len(response[j]) = 1
                 /\ response[j][1].tag = "song_id"
                 /\ response[j + 1][1].tag = "reason"}}

\* C5: with use_reasoning set, a returned song carries the reason the model
\* paired with its id (no reduction pass ran after that response).
C5_ReasoningFromModel ==
    (search_pc = "done" /\ generate_song_reasoning /\ last_call.made /\ ~last_call.final) =>
        \A k \in 1..Len(returned_songs) :
            \A pair \in ReasonPairs(last_call.response) :
                pair.id = returned_songs[k] =>
                    song_reasoning[returned_songs[k]] = pair.text

\* C16: search_library on an empty library builds no chunk, makes no model
\* call and returns an empty list with zero token usage, without raising.
C16_EmptyLibrary ==
    (Len(library) = 0 /\ search_pc # "start") =>
        /\ search_pc = "done"
        /\ chunks = <<>>
        /\ model_calls = 0
        /\ returned_songs = <<>>
        /\ total_token_usage = ZeroTotals

\* The lines of a response that name a song of the sublibrary.
MatchedLines(response, sub) ==
    {j \in 1..Len(response) :
        /\ Len(response[j]) > 0
        /\ response[j][1].tag = "song_id"
        /\ response[j][1].id \in Elems(sub)}

\* The k-th smallest element of a set of positions.
KthOf(P, k) == CHOOSE p \in P : Cardinality({q \in P : q < p}) = k - 1

\* The chunk a song of the library is in.
ChunkOf(id) == CHOOSE k \in 1..Len(chunks) : id \in Elems(chunks[k])

\* C17: the list recursive_search returns holds the matched songs in the
\* order their ids occur in the response, whatever their order in the
\* sublibrary; when no reduction pass ran, search_library returns the chunk
\* results concatenated in chunk order.
C17_RankingOrder ==
    /\ last_call.made =>
          LET P == MatchedLines(last_call.response, last_call.sublibrary) IN
          /\ Len(last_call.result) = Cardinality(P)
          /\ \A k \in 1..Len(last_call.result) :
                last_call.result[k] = last_call.response[KthOf(P, k)][1].id
    /\ (search_pc = "done" /\ ~last_call.final) =>
          /\ returned_songs = filtered_songs
          /\ \A p, q \in 1..Len(returned_songs) :
                p < q => ChunkOf(returned_songs[p]) <= ChunkOf(returned_songs[q])
          /\ last_call.made =>
                SelectSeq(returned_songs,
                          LAMBDA id : ChunkOf(id) = Len(chunks)) = last_call.result

C17_Witness ==
    /\ search_pc = "done"
    /\ ~last_call.final
    /\ Len(chunks) >= 2
    /\ Len(returned_songs) = 2
    /\ returned_songs[1] > returned_songs[2]

\* C18: recursive_search makes exactly one model call, also for an empty
\* sublibrary; what it returns has one entry for each id of the response
\* that belongs to the sublibrary and nothing else, so it is never longer
\* than the number of ids the model named, shorter than n when the model
\* named fewer than n, and empty for an empty sublibrary; the only
\* exception is that of the model call itself.
C18_NoPaddingEmptyIsNotAnError ==
    /\ rs_pc \in {"idle", "start", "returned", "raised"}
    /\ rs_pc \in {"returned", "raised"} => rs_calls = 1
    /\ rs_pc = "returned" =>
          /\ Elems(rs_result) \subseteq Elems(rs_sublibrary)
          /\ Len(rs_result) = Cardinality(MatchedLines(rs_response, rs_sublibrary))
          /\ Len(rs_result) <= IdCount(rs_response)
          /\ IdCount(rs_response) < rs_n => Len(rs_result) < rs_n
          /\ rs_sublibrary = <<>> => rs_result = <<>>

C18_Witness ==
    /\ rs_pc = "returned"
    /\ rs_sublibrary = <<>>
    /\ rs_calls = 1
    /\ 0 < IdCount(rs_response) /\ IdCount(rs_response) < rs_n
    /\ rs_result = <<>>

\* C30: the list recursive_search returns holds every song of the
\* sublibrary at most once, also when the response repeats an id, and so
\* is never longer than the sublibrary.
C30_NoDuplicatesInRanking ==
    rs_pc = "returned" =>
        /\ \A p, q \in 1..Len(rs_result) : rs_result[p] = rs_result[q] => p = q
        /\ Len(rs_result) <= Len(rs_sublibrary)

\* The tokens the calls made so far reported: one call per chunk handled,
\* and the reduction call when it ran.
RECURSIVE ChunkTokens(_, _)
ChunkTokens(upto, key) ==
    IF upto = 0 THEN 0
    ELSE ChunkTokens(upto - 1, key)
           + UsageGet(Usage(client_reports_usage, chunks[upto], <<>>), key, 0)

ReductionTokens(key) ==
    IF last_call.final
    THEN UsageGet(Usage(client_reports_usage, last_call.sublibrary, last_call.response),
                  key, 0)
    ELSE 0

\* C19: the totals search_library returns are the sums of the input and of
\* the output tokens of every recursive_search call it made, the reduction
\* call included, and total_requests is the number of those calls.
C19_SearchTokenAccounting ==
    /\ search_pc \in {"chunks", "done"} =>
          /\ total_token_usage.total_input_tokens =
                 ChunkTokens(chunk_index, "input_tokens") + ReductionTokens("input_tokens")
          /\ total_token_usage.total_output_tokens =
                 ChunkTokens(chunk_index, "output_tokens") + ReductionTokens("output_tokens")
    /\ search_pc = "done" =>
          /\ total_token_usage.total_requests = model_calls
          /\ model_calls = Len(chunks) + (IF last_call.final THEN 1 ELSE 0)

C19_Witness ==
    /\ search_pc = "done"
    /\ client_reports_usage
    /\ last_call.final
    /\ Len(chunks) >= 2
    /\ total_token_usage.total_requests = Len(chunks) + 1

\* C20: a model call that fails ends search_library with the exception: the
\* failed call is the last call made (it is not repeated and no later call
\* follows), and nothing is returned, whatever the chunks before it gave.
C20_AllOrNothing ==
    /\ model_calls > chunk_index + (IF last_call.final THEN 1 ELSE 0) =>
          search_pc = "raised"
    /\ search_pc = "raised" =>
          /\ returned_songs = <<>>
          /\ model_calls <= chunk_index + 1
          /\ ~last_call.final

C20_Witness ==
    /\ search_pc = "raised"
    /\ model_calls >= 2
    /\ filtered_songs # <<>>
    /\ returned_songs = <<>>

(***************************************************************************)
(* Properties of the Reasoning Generator.                                   *)
(***************************************************************************)
\* The call made for the song at position i raised, or its response could
\* not be decoded.
ItemFailed(i) ==
    \/ worker_call[i].fails
    \/ decode_individual_song_reasoning(worker_call[i].response).raised

WorkerRan(i) == future[i] \in {"finished", "collected"}

\* C7: whatever order the workers complete in, the returned list is as long
\* as the input and its i-th element is the i-th input song, and the score
\* given at position i is the one in the reasoning of the song at
\* position i; a slot that is filled holds the song of its own position.
C7_OrderPreserved ==
    /\ reasoning_pc = "collect" =>
          \A i \in 1..Len(reasoned_songs) : reasoned_songs[i] \in {0, songs[i]}
    /\ reasoning_pc = "done" =>
          /\ Len(final_songs) = Len(songs)
          /\ \A i \in 1..Len(songs) :
                /\ final_songs[i] = songs[i]
                /\ item_reasoning[final_songs[i]].similarity
                       = ScoreAt(similarity_scores, i)

C7_Witness ==
    /\ reasoning_pc = "done"
    /\ ~pool_failed
    /\ Len(songs) >= 2
    /\ Len(similarity_scores) = Len(songs)
    /\ first_collected = Len(songs)
    /\ final_songs = songs

\* C8: an item whose response says filter_out=true is marked excluded and
\* has no explanation sentence; an item whose response says filter_out=false
\* with reason R is not excluded and its reasoning is R, followed by the
\* similarity suffix when a score was given.
C8_FilterOutDecision ==
    \A i \in 1..Len(songs) :
        (WorkerRan(i) /\ ~ItemFailed(i)) =>
            LET decoded == decode_individual_song_reasoning(worker_call[i].response)
            IN  IF decoded.filter_out
                THEN /\ item_excluded[songs[i]] = "true"
                     /\ item_reasoning[songs[i]].type = "str"
                     /\ item_reasoning[songs[i]].text = ""
                ELSE /\ item_excluded[songs[i]] # "true"
                     /\ item_reasoning[songs[i]]
                            = Str(decoded.reason, ScoreAt(similarity_scores, i))

\* C9: generate_many_song_reasoning returns whatever the calls did; an item
\* whose call or decoding failed has the generic fallback reasoning, with its
\* similarity score when one was given; every other item has what its own
\* response and score alone determine.
C9_PerItemResilience ==
    /\ reasoning_pc \in {"idle", "submit", "collect", "done"}
    /\ (reasoning_pc = "done" /\ ~pool_failed) =>
          /\ Len(final_songs) = Len(songs)
          /\ \A i \in 1..Len(songs) :
                /\ final_songs[i] = songs[i]
                /\ IF ItemFailed(i)
                   THEN item_reasoning[songs[i]]
                            = Str(FallbackText, ScoreAt(similarity_scores, i))
                   ELSE /\ item_reasoning[songs[i]]
                              = generate_individual_song_reasoning(
                                    worker_call[i], ScoreAt(similarity_scores, i),
                                    ReasoningUsage(i)).reasoning
                        /\ item_reasoning[songs[i]].text # FallbackText

C9_Witness ==
    /\ reasoning_pc = "done"
    /\ ~pool_failed
    /\ \E i, j, k \in 1..Len(songs) :
          /\ worker_call[i].fails
          /\ ScoreAt(similarity_scores, i) # NoScore
          /\ ~worker_call[j].fails /\ ItemFailed(j)
          /\ ~ItemFailed(k)
          /\ i < k

\* A response with a <filter_out>false</filter_out> line and, after it, a
\* <reason> line, whatever other lines it holds.
HasFalseAndReason(response) ==
    \E j, k \in 1..Len(response) :
        /\ j < k
        /\ response[j] = <<FilterTok("false")>>
        /\ response[k] = <<ReasonTok(MatchText)>>

\* C24: a response that holds a <filter_out>false</filter_out> line and a
\* <reason>R</reason> line decodes to (not filtered, R) whatever stray or
\* blank lines it also holds, and the song does not get the fallback text.
C24_StrayLineTolerance ==
    \A i \in 1..Len(songs) :
        (WorkerRan(i) /\ ~worker_call[i].fails
           /\ HasFalseAndReason(worker_call[i].response)) =>
            LET decoded == decode_individual_song_reasoning(worker_call[i].response) IN
            /\ ~decoded.raised
            /\ ~decoded.filter_out
            /\ decoded.reason = MatchText
            /\ item_reasoning[songs[i]].text # FallbackText

\* What the call made for the song at position i contributes: the cleaned
\* usage of the call, or nothing when the song fell back.
ItemTokens(i, key) ==
    IF ItemFailed(i) THEN 0 ELSE CleanedUsage(ReasoningUsage(i))[key]

RECURSIVE SumItemTokens(_, _)
SumItemTokens(S, key) ==
    IF S = {} THEN 0
    ELSE LET i == CHOOSE x \in S : TRUE
         IN  ItemTokens(i, key) + SumItemTokens(S \ {i}, key)

Collected == {i \in 1..Len(songs) : future[i] = "collected"}

\* C25: whatever order the workers complete in, the running totals are the
\* sums of the usages of the items collected so far, an item that fell back
\* counting zero, and the totals returned are the sums over all items.
C25_ReasoningTokenAccounting ==
    ~pool_failed =>
        /\ \A key \in {"input_tokens", "output_tokens", "total_tokens"} :
              total_reasoning_tokens[key] = SumItemTokens(Collected, key)
        /\ (reasoning_pc = "done" /\ Len(songs) > 0) => Collected = 1..Len(songs)

C25_Witness ==
    /\ reasoning_pc = "done"
    /\ ~pool_failed
    /\ Len(songs) >= 3
    /\ first_collected # 1
    /\ \E i, j, k \in 1..Len(songs) :
          /\ i # j /\ j # k /\ i # k
          /\ ItemFailed(i) /\ ~ItemFailed(j) /\ ~ItemFailed(k)
    /\ total_reasoning_tokens.total_tokens > 0

(***************************************************************************)
(* Properties of enrich_songs.                                              *)
(***************************************************************************)
YieldedIds == {yielded[k].id : k \in 1..Len(yielded)}

\* C10: enrich_songs never raises to its consumer; no id is yielded twice and
\* none that was not handed in; when the generator ends it has yielded
\* exactly one song for every input id; a song whose lyrics fetch raised is
\* yielded with empty lyrics.
C10_EnrichmentCompleteness ==
    /\ enrich_pc \in {"idle", "start", "running", "done"}
    /\ YieldedIds \subseteq Elems(raw_songs)
    /\ \A k, m \in 1..Len(yielded) : yielded[k].id = yielded[m].id => k = m
    /\ \A i \in 1..Len(raw_songs) :
          enrich_future[i] = "yielded" <=> raw_songs[i] \in YieldedIds
    /\ enrich_pc = "done" =>
          /\ Len(yielded) = Len(raw_songs)
          /\ YieldedIds = Elems(raw_songs)
    /\ \A i \in 1..Len(raw_songs), k \in 1..Len(yielded) :
          (enrich_outcome[i] = "lyrics_raise" /\ yielded[k].id = raw_songs[i]) =>
              yielded[k].lyrics = ""

C10_Witness ==
    /\ enrich_pc = "done"
    /\ Len(raw_songs) >= 2
    /\ Len(yielded) = Len(raw_songs)
    /\ \E i, j \in 1..Len(raw_songs) :
          /\ enrich_outcome[i] = "lyrics_raise"
          /\ enrich_outcome[j] = "all_ok"
          /\ yielded[1].id = raw_songs[j]
          /\ i < j

\* C11: every song that has been yielded has exactly one upsert for its id
\* in the sequence of effects of enrich_songs, whether its enrichment
\* succeeded or failed, and that upsert precedes the yield.
C11_PersistOnceBeforeYield ==
    \A p \in 1..Len(enrich_events) :
        enrich_events[p].op = "yield" =>
            /\ Cardinality({q \in 1..Len(enrich_events) :
                               enrich_events[q] = UpsertEvent(enrich_events[p].id)}) = 1
            /\ \E q \in 1..(p - 1) :
                  enrich_events[q] = UpsertEvent(enrich_events[p].id)

\* C13: every yielded song had all three enrichment sub-steps run, and a
\* sub-step that raised or found nothing emptied only its own field.
C13_ThreeSubStepsPerItem ==
    \A i \in 1..Len(raw_songs) :
        enrich_future[i] = "yielded" =>
            /\ SubStepsRun(enrich_outcome[i]) = SubSteps
            /\ \A k \in 1..Len(yielded) :
                  yielded[k].id = raw_songs[i] =>
                      /\ enrich_outcome[i] \in {"no_lyrics", "lyrics_raise"} =>
                             /\ yielded[k].song_metadata # ""
                             /\ yielded[k].embedding = "vector"
                      /\ enrich_outcome[i] = "metadata_raise" =>
                             /\ yielded[k].lyrics # ""
                             /\ yielded[k].embedding = "vector"

\* C14: when the query embedding call or the nearest-neighbour query of
\* vector_search_library failed, the call raised to its caller instead of
\* returning a result list, and the caller still holds the token usage of
\* the embedding stage.
C14_VectorFailureSurfaced ==
    (vector_call.made /\ (~vector_call.embed_ok \/ ~vector_call.rpc_ok)) =>
        /\ vector_call.raised
        /\ search_token_usage.total_requests >= 1

\* C15: a call of vector_search_library that reached the store issued
\* exactly one nearest-neighbour query, with the caller's threshold and
\* count, and when that query succeeded it returned exactly the matches of
\* the store, an empty list when there were none.
C15_ThresholdEnforced ==
    (vector_call.made /\ supabase_configured) =>
        /\ vector_call.queries = <<RpcQuery(MatchThreshold, VectorN)>>
        /\ vector_call.rpc_ok => vector_call.returned = vector_call.matches

EventsOfType(type) == {p \in 1..Len(events) : events[p] = type}

TerminalEvents == EventsOfType("results") \cup EventsOfType("error")

\* C29: a stream begins with the start event; it holds at most one terminal
\* event (results or error, never both), nothing follows it, and a stream
\* that has ended holds exactly one; the completion event of the enrichment
\* stage comes after every progress event and before the results event.
C29_StreamTermination ==
    /\ events # <<>> => events[1] = "start"
    /\ EventsOfType("start") \subseteq {1}
    /\ Cardinality(TerminalEvents) <= 1
    /\ TerminalEvents \subseteq {Len(events)}
    /\ flow_pc = "done" <=> TerminalEvents # {}
    /\ Cardinality(EventsOfType("completion")) <= 1
    /\ \A c \in EventsOfType("completion") :
          /\ \A p \in EventsOfType("progress") : p < c
          /\ \A t \in EventsOfType("results") : c < t
    /\ (EventsOfType("results") # {} /\ rerank_call.made) =>
          EventsOfType("completion") # {}

C29_Witness ==
    /\ flow_pc = "done"
    /\ events[Len(events)] = "results"
    /\ enriched_songs # <<>>
    /\ Cardinality(EventsOfType("progress")) >= 2
    /\ EventsOfType("completion") # {}

\* C27: right after the cache lookup, every id of the catalog is in exactly
\* one of the two lists; with credentials the processed list holds exactly
\* the catalog ids that have a row in the store and the unprocessed list
\* the others in catalog order; without credentials everything is
\* unprocessed.
C27_CachePartition ==
    (flow_pc = "enrich" /\ enriched_songs = <<>>) =>
        /\ Elems(already_processed) \cup Elems(unprocessed) = Elems(flow_raw_songs)
        /\ Elems(already_processed) \cap Elems(unprocessed) = {}
        /\ supabase_configured =>
              /\ Elems(already_processed) = Elems(flow_raw_songs) \cap DbIds(db_songs)
              /\ unprocessed =
                     SelectSeq(flow_raw_songs, LAMBDA id : id \notin DbIds(db_songs))
        /\ ~supabase_configured =>
              /\ already_processed = <<>>
              /\ unprocessed = flow_raw_songs

\* C22: a list of artist names that was written to the `artists` column and
\* read back is the list that was written, the empty list and names with a
\* comma included.
C22_ContributorsRoundTrip ==
    art_pc = "loaded" => artists_list = artists

C28_JoinTableUniqueness ==
    /\ \A id \in 1..MaxIds : join_rows[id] <= 1
    /\ \A p, q \in Callers :
          (q \in join_after[p] /\ join_songs[q] = join_songs[p]) => join_inserted[p] = {}

\* C23: when the credentials of the text-completion provider are missing,
\* generate_many_song_reasoning does not run workers that fall back item by
\* item and does not return normally: the error reaches its caller.
C23_EagerConfigurationError ==
    (~llm_configured /\ Len(songs) > 0 /\ ~pool_failed) =>
        /\ \A i \in 1..Len(songs) : ~WorkerRan(i)
        /\ reasoning_pc # "done"

\* C12: when the cache lookup of a request succeeds, every id of the
\* catalog that an earlier request stored is classified as already
\* processed and is not handed to enrich_songs again.  The rows of db_songs
\* before the first song of this request is enriched are the rows earlier
\* requests stored.
C12_NoReEnrichmentOnRetry ==
    (flow_pc = "enrich" /\ enriched_songs = <<>> /\ supabase_configured) =>
        \A id \in Elems(flow_raw_songs) \cap DbIds(db_songs) :
            /\ id \in Elems(already_processed)
            /\ id \notin Elems(unprocessed)

(***************************************************************************)
(* Properties of the search flow.                                           *)
(***************************************************************************)
\* all_enriched_songs (main.py:593)
AllEnrichedIds == Elems(already_processed) \cup EnrichedIds

\* C6: when vector search found no match (and did not fail) while the
\* user's enriched library is not empty, the flow hands that library to
\* search_library and ends with a results event, not an error.
C6_VectorFallback ==
    (/\ flow_pc = "done"
     /\ vector_call.made
     /\ ~vector_call.failed
     /\ vector_call.matches = <<>>
     /\ AllEnrichedIds # {}) =>
        /\ rerank_call.made
        /\ Elems(rerank_call.library) = AllEnrichedIds
        /\ events[Len(events)] = "results"
        /\ flow_error = ""

====
